---- MODULE Spec2Model ----
(***************************************************************************)
(* A model of the AIOS backend (heygrtnx/aios): the product-upload         *)
(* session protocol, the uploadToSheet confirmation tool, the access       *)
(* guards, the RFQ tool and the follow-up sweep.                           *)
(*                                                                         *)
(* Strings whose content the code inspects (trim, case folding, header     *)
(* matching) are sequences of one-character strings.  Optional values      *)
(* (null / undefined) are sequences of length 0 or 1.  Time is the Unix    *)
(* clock in seconds; a Redis entry is visible while now < exp.             *)
(***************************************************************************)
EXTENDS Integers, Sequences, FiniteSets, TLC

VARIABLES
  now,          \* wall clock, seconds
  cfg,          \* environment configuration (ConfigService), fixed at start
  redis,        \* the key-value store, one map per key family
  nextKey,      \* number of upload keys minted so far (randomUUID)
  uploadEvt,    \* per table: the last `upload` event emitted for it
  calls,        \* uploadToSheet executions in flight: arguments and position
  lastReturn,   \* the last uploadToSheet return: arguments and result
  successes,    \* per upload key: success=true returns so far (0, 1, 2 = several)
  store,        \* OpenAccessPromptLimitGuard.store
  lastReq,      \* the last HTTP request and what the guards did with it
  attempts,     \* per rate-limit key: guarded requests seen so far
  sheetLog,     \* rows appended to the "RFQ Log" spreadsheet
  lastRfq,      \* the last processRfq call: its input and its return
  sweep,        \* the triggerFollowups execution in progress, and the last result
  mails,        \* per quote and reminder: follow-up emails delivered (0, 1, 2 = several)
  stream,       \* the streaming turn in progress: model parts read, events emitted
  probe,        \* the last call observed: its arguments and its result
  slack,        \* handleSlackEvent executions: per delivery, its event and position
  slackDup,     \* per Slack event id: a delivery went on while the marker was alive
  nextMsg,      \* chat messages created so far (each gets the next number)
  sheet1,       \* rows of "Sheet1" of the spreadsheet
  wa,           \* the WhatsApp turn in progress: its message, position and effects
  staging       \* getOrCreateUploadKey executions in flight: rows, position, key

rfqVars == << sheetLog, lastRfq, sweep, mails >>

slackVars == << slack, slackDup, nextMsg >>

chatVars == << stream, probe, slack, slackDup, nextMsg, sheet1, wa, staging >>

vars == << now, cfg, redis, nextKey, uploadEvt, calls, lastReturn, successes,
          store, lastReq, attempts, rfqVars, chatVars >>

(***************************************************************************)
(* Bounds of the model.                                                    *)
(***************************************************************************)
MaxUploads == 2      \* upload keys that can be minted
MaxCalls == 2        \* uploadToSheet executions in flight at once
MaxUploadTicks == 1  \* one-hour clock steps in the upload specifications
MaxRequests == 3     \* guarded requests per rate-limit key
MaxGuardTicks == 2   \* 23-hour clock steps in the guard specifications
MaxQuotes == 1       \* quote-number suffixes
MaxSheetRows == 1    \* rows of the RFQ spreadsheet
MaxFollowupDays == 2 \* days the follow-up clock runs
MaxEvents == 1       \* distinct Slack event ids
MaxDeliveries == 2   \* Slack deliveries handled in one behaviour
MaxMessages == 24    \* chat messages created in one behaviour

(***************************************************************************)
(* Character strings.                                                      *)
(***************************************************************************)
None == << >>
Some(x) == << x >>
IsSome(o) == Len(o) = 1
Get(o) == o[1]

UpperLetters ==
  << "A","B","C","D","E","F","G","H","I","J","K","L","M",
     "N","O","P","Q","R","S","T","U","V","W","X","Y","Z" >>
LowerLetters ==
  << "a","b","c","d","e","f","g","h","i","j","k","l","m",
     "n","o","p","q","r","s","t","u","v","w","x","y","z" >>

IsWhitespace(c) == c \in {" ", "\t", "\n"}

toLowerChar(c) ==
  IF \E i \in 1..26 : UpperLetters[i] = c
  THEN LowerLetters[CHOOSE i \in 1..26 : UpperLetters[i] = c]
  ELSE c

toUpperChar(c) ==
  IF \E i \in 1..26 : LowerLetters[i] = c
  THEN UpperLetters[CHOOSE i \in 1..26 : LowerLetters[i] = c]
  ELSE c

toLowerCase(s) == [i \in 1..Len(s) |-> toLowerChar(s[i])]
toUpperCase(s) == [i \in 1..Len(s) |-> toUpperChar(s[i])]

RECURSIVE trimStart(_)
trimStart(s) ==
  IF s # << >> /\ IsWhitespace(Head(s)) THEN trimStart(Tail(s)) ELSE s

RECURSIVE trimEnd(_)
trimEnd(s) ==
  IF s # << >> /\ IsWhitespace(s[Len(s)])
  THEN trimEnd(SubSeq(s, 1, Len(s) - 1))
  ELSE s

trim(s) == trimEnd(trimStart(s))

(***************************************************************************)
(* Number(x) of JavaScript on the strings the model uses: surrounding      *)
(* whitespace is ignored, the empty string is 0, a string of decimal       *)
(* digits is its value, anything else is NaN (None).                       *)
(***************************************************************************)
Digits == << "0","1","2","3","4","5","6","7","8","9" >>
IsDigit(c) == \E i \in 1..10 : Digits[i] = c
DigitVal(c) == (CHOOSE i \in 1..10 : Digits[i] = c) - 1

RECURSIVE DigitsValue(_)
DigitsValue(s) ==
  IF s = << >> THEN 0
  ELSE 10 * DigitsValue(SubSeq(s, 1, Len(s) - 1)) + DigitVal(s[Len(s)])

Number(s) ==
  LET t == trim(s) IN
  IF t = << >> THEN Some(0)
  ELSE IF \A i \in 1..Len(t) : IsDigit(t[i]) THEN Some(DigitsValue(t))
  ELSE None

(***************************************************************************)
(* Parsed product tables (the `rows` of parseProductFile): the first row   *)
(* is the header.                                                          *)
(***************************************************************************)
TableA ==
  << << <<"S","K","U">>, <<"U","n","i","t">>, <<"P","r","i","c","e">> >>,
     << <<"w","1"," ">>, <<"e","a">>, <<"5">> >>,
     << <<"X","2">>, <<"k","g">>, << >> >> >>
TableB ==
  << << <<"I","t","e","m","_","C","o","d","e">>, <<"c","o","s","t">> >>,
     << <<"W","1">>, <<"7">> >>,
     << <<" ">>, <<"9">> >>,
     << <<"Y","3">> >> >>
TableC ==
  << << <<"N","o","t","e">> >>,
     << <<"h","i">> >> >>

TableList == << TableA, TableB, TableC >>
Tables == { TableList[i] : i \in 1..Len(TableList) }
\* The store and the tool calls hold a table by its number in TableList.
TableId(rows) == CHOOSE i \in 1..Len(TableList) : TableList[i] = rows

(***************************************************************************)
(* ChatService.hashRows: sha256 of JSON.stringify(rows).  The digest is    *)
(* taken to be collision free: it is the table's number in TableList.      *)
(***************************************************************************)
hashRows(rows) == TableId(rows)
Hashes == 1..Len(TableList)

(***************************************************************************)
(* ChatService.detectColumnIndex and buildProductCatalog.  Indices are     *)
(* 1-based here and 0 stands for the code's -1.                            *)
(***************************************************************************)
SkuCandidates ==
  << <<"s","k","u">>,
     <<"p","r","o","d","u","c","t","i","d">>,
     <<"i","t","e","m","c","o","d","e">>,
     <<"i","t","e","m","n","o">>,
     <<"p","r","o","d","u","c","t","c","o","d","e">>,
     <<"c","o","d","e">>,
     <<"p","a","r","t","n","o">>,
     <<"a","r","t","i","c","l","e">>,
     <<"r","e","f">>,
     <<"r","e","f","e","r","e","n","c","e">>,
     <<"i","d">> >>

PriceCandidates ==
  << <<"p","r","i","c","e">>,
     <<"u","n","i","t","p","r","i","c","e">>,
     <<"s","e","l","l","i","n","g","p","r","i","c","e">>,
     <<"c","o","s","t">>,
     <<"r","a","t","e">>,
     <<"a","m","o","u","n","t">>,
     <<"l","i","s","t","p","r","i","c","e">>,
     <<"u","n","i","t","c","o","s","t">> >>

NameCandidates ==
  << <<"n","a","m","e">>,
     <<"p","r","o","d","u","c","t","n","a","m","e">>,
     <<"i","t","e","m","n","a","m","e">>,
     <<"d","e","s","c","r","i","p","t","i","o","n">>,
     <<"t","i","t","l","e">>,
     <<"l","a","b","e","l">> >>

UnitCandidates ==
  << <<"u","n","i","t">>,
     <<"u","o","m">>,
     <<"u","n","i","t","o","f","m","e","a","s","u","r","e">>,
     <<"m","e","a","s","u","r","e">> >>

RECURSIVE SelectChars(_, _)
SelectChars(s, drop) ==
  IF s = << >> THEN << >>
  ELSE IF Head(s) \in drop THEN SelectChars(Tail(s), drop)
  ELSE << Head(s) >> \o SelectChars(Tail(s), drop)

\* A plausible slip: only whitespace is removed.
normalizeHeaderSpacesOnly(h) == SelectChars(toLowerCase(h), {" ", "\t", "\n"})

normalizeHeader(h) == SelectChars(toLowerCase(h), {" ", "\t", "\n", "_", "-"})

indexOf(seq, x) ==
  IF \E i \in 1..Len(seq) : seq[i] = x
  THEN CHOOSE i \in 1..Len(seq) :
         seq[i] = x /\ \A j \in 1..(i - 1) : seq[j] # x
  ELSE 0

detectColumnIndex(headers, candidates) ==
  LET normalized == [i \in 1..Len(headers) |-> normalizeHeader(headers[i])]
      found == { c \in 1..Len(candidates) : indexOf(normalized, candidates[c]) # 0 }
  IN IF found = {} THEN 0
     ELSE indexOf(normalized,
                  candidates[CHOOSE c \in found : \A d \in found : c <= d])

Cell(row, idx) == IF idx >= 1 /\ idx <= Len(row) THEN Some(row[idx]) ELSE None
OrElse(o, d) == IF IsSome(o) THEN Get(o) ELSE d

pcs == <<"p","c","s">>

CatalogHas(catalog, key) == \E i \in 1..Len(catalog) : catalog[i].sku = key
CatalogGet(catalog, key) ==
  catalog[CHOOSE i \in 1..Len(catalog) : catalog[i].sku = key]
CatalogPut(catalog, e) ==
  IF CatalogHas(catalog, e.sku)
  THEN [i \in 1..Len(catalog) |->
          IF catalog[i].sku = e.sku THEN e ELSE catalog[i]]
  ELSE Append(catalog, e)

RECURSIVE CatalogRows(_, _, _, _, _, _)
CatalogRows(rows, i, skuIdx, priceIdx, nameIdx, unitIdx) ==
  IF i < 2 THEN << >>
  ELSE
    LET before == CatalogRows(rows, i - 1, skuIdx, priceIdx, nameIdx, unitIdx)
        row == rows[i]
        sku == trim(OrElse(Cell(row, skuIdx), << >>))
        rawPrice == IF priceIdx # 0 THEN Cell(row, priceIdx) ELSE None
        price == IF IsSome(rawPrice) /\ Get(rawPrice) # << >>
                 THEN Number(Get(rawPrice)) ELSE None
        entry == [ sku |-> toUpperCase(sku),
                   name |-> IF nameIdx # 0
                            THEN trim(OrElse(Cell(row, nameIdx), << >>))
                            ELSE sku,
                   price |-> price,
                   unit |-> IF unitIdx # 0
                            THEN trim(OrElse(Cell(row, unitIdx), pcs))
                            ELSE pcs ]
    IN IF sku = << >> THEN before ELSE CatalogPut(before, entry)

\* The catalog is a sequence of entries with distinct sku; << >> is null.
buildProductCatalog(rows) ==
  IF Len(rows) < 2 THEN << >>
  ELSE
    LET headers == rows[1]
        skuIdx == detectColumnIndex(headers, SkuCandidates)
    IN IF skuIdx = 0 THEN << >>
       ELSE CatalogRows(rows, Len(rows), skuIdx,
                        detectColumnIndex(headers, PriceCandidates),
                        detectColumnIndex(headers, NameCandidates),
                        detectColumnIndex(headers, UnitCandidates))

(***************************************************************************)
(* The key-value store (RedisService).  An entry is [val, exp] with val an *)
(* optional value; a key that was never set, was deleted or has expired    *)
(* reads as null (None).                                                   *)
(***************************************************************************)
UploadKeys == 1..MaxUploads

\* A quote number RFQ-<yyyymmdd>-<suffix> is the pair << day, suffix >>.
Suffixes == 1..MaxQuotes
\* body.event_id of a Slack delivery, and the slots deliveries run in.
EventIds == 1..MaxEvents
Deliveries == 1..MaxDeliveries
\* chat:history:<phone> and slack:history:<channel>:<user>, one of each.
HistoryKeys == { "wa", "slack" }
QuoteIds == (0..MaxFollowupDays) \X Suffixes

PRODUCT_UPLOAD_TTL == 60 * 60
CATALOG_TTL == 60 * 60 * 24 * 30

Absent == [val |-> None, exp |-> 0]
Entry(v, ttl) == [val |-> Some(v), exp |-> now + ttl]
redisGet(e) == IF e.exp > now THEN e.val ELSE None

RedisEmpty ==
  [ upload  |-> [k \in UploadKeys |-> Absent],
    hash    |-> [h \in Hashes |-> Absent],
    catalog |-> Absent,
    rfqData |-> [q \in QuoteIds |-> Absent],
    followup |-> [q \in QuoteIds |-> Absent],
    slackEvent |-> [e \in EventIds |-> Absent],
    history |-> [k \in HistoryKeys |-> Absent] ]

\* buildProductCatalog of every table of the model, evaluated once.
Catalogs == [i \in 1..Len(TableList) |-> buildProductCatalog(TableList[i])]

\* ChatService.saveProductCatalog: the store after the call.
saveProductCatalog(r, rows) ==
  LET catalog == Catalogs[TableId(rows)] IN
  IF catalog = << >> THEN r
  ELSE [r EXCEPT !.catalog = Entry(catalog, CATALOG_TTL)]

\* A plausible slip: the hash entry is written without being consulted, so
\* every upload mints a new key.
GetOrCreateUploadKeyNoReuse(r, rows, nk) ==
  LET uploadKey == nk + 1
      r1 == [r EXCEPT !.upload[uploadKey] =
                         Entry(TableId(rows), PRODUCT_UPLOAD_TTL)]
      r2 == [r1 EXCEPT !.hash[hashRows(rows)] =
                          Entry(uploadKey, PRODUCT_UPLOAD_TTL)]
  IN [ uploadKey |-> uploadKey, alreadyExists |-> FALSE,
       redis |-> saveProductCatalog(r2, rows), nextKey |-> uploadKey ]

\* ChatService.getOrCreateUploadKey: the key, the flag and the store after
\* the call.  randomUUID is a key never handed out before.
GetOrCreateUploadKey(r, rows, nk) ==
  LET hash == hashRows(rows)
      existingKey == redisGet(r.hash[hash])
      existingData == IF IsSome(existingKey)
                      THEN redisGet(r.upload[Get(existingKey)])
                      ELSE None
  IN IF IsSome(existingKey) /\ IsSome(existingData)
     THEN [ uploadKey |-> Get(existingKey), alreadyExists |-> TRUE,
            redis |-> IF ~IsSome(redisGet(r.catalog))
                      THEN saveProductCatalog(r, rows)
                      ELSE r,
            nextKey |-> nk ]
     ELSE
       LET uploadKey == nk + 1
           r1 == [r EXCEPT !.upload[uploadKey] =
                              Entry(TableId(rows), PRODUCT_UPLOAD_TTL)]
           r2 == [r1 EXCEPT !.hash[hash] = Entry(uploadKey, PRODUCT_UPLOAD_TTL)]
       IN [ uploadKey |-> uploadKey, alreadyExists |-> FALSE,
            redis |-> saveProductCatalog(r2, rows), nextKey |-> uploadKey ]

UploadEvent(rows, res) ==
  [ t |-> "upload", uploadKey |-> res.uploadKey, rowCount |-> Len(rows),
    columns |-> rows[1], alreadyExists |-> res.alreadyExists ]

\* The upload prelude shared by handleProductUpload and handleStreamPrompt:
\* stage the rows and emit the `upload` event.
StageAndEmit(rows) ==
  LET res == GetOrCreateUploadKey(redis, rows, nextKey) IN
  /\ redis' = res.redis
  /\ nextKey' = res.nextKey
  /\ uploadEvt' = [uploadEvt EXCEPT ![hashRows(rows)] = Some(UploadEvent(rows, res))]

\* The model mints at most MaxUploads keys.
CanStage(rows) ==
  \/ nextKey < MaxUploads
  \/ LET existingKey == redisGet(redis.hash[hashRows(rows)]) IN
     IsSome(existingKey) /\ IsSome(redisGet(redis.upload[Get(existingKey)]))

\* ChatService.handleProductUpload (POST chat/products/upload).
HandleProductUpload(rows) ==
  /\ CanStage(rows)
  /\ StageAndEmit(rows)
  /\ UNCHANGED << now, cfg, calls, lastReturn, successes, store, lastReq, attempts, rfqVars, chatVars >>

\* ChatService.handleStreamPrompt with a product-file attachment.
HandleStreamPrompt(rows) ==
  /\ CanStage(rows)
  /\ StageAndEmit(rows)
  /\ UNCHANGED << now, cfg, calls, lastReturn, successes, store, lastReq, attempts, rfqVars, chatVars >>

(***************************************************************************)
(* The uploadToSheet tool (createSheetUploadTool, the data-retrieval       *)
(* version).  A call runs in two steps, separated by the awaits on the     *)
(* store: the code check and redis.get, then redis.delete and the result.  *)
(***************************************************************************)
Calls == 1..MaxCalls

MsgNotConfigured == "Upload secret code is not configured on the server."
MsgInvalidCode == "Invalid secret code. Upload denied."
MsgExpired == "Upload session expired or not found. Please upload the file again."
MsgRetrieved == "Successfully retrieved rows (including header) from the uploaded file."
MsgFailed == "Failed to retrieve data"

\* The earlier version of the tool compared after trim() only.
codeMatchesTrimOnly(secretCode, expectedCode) ==
  trim(secretCode) = trim(expectedCode)

\* secretCode.trim().toLowerCase() === expectedCode.trim().toLowerCase()
codeMatches(secretCode, expectedCode) ==
  toLowerCase(trim(secretCode)) = toLowerCase(trim(expectedCode))

Failure(msg) == [success |-> FALSE, message |-> msg, data |-> None]
Success(msg, data) == [success |-> TRUE, message |-> msg, data |-> data]

IdleCall == [pc |-> "idle", uploadKey |-> 0, secretCode |-> << >>, data |-> None]

\* The tool returns `result` to the model; the execution slot is free again.
Return(c, uploadKey, secretCode, result) ==
  /\ calls' = [calls EXCEPT ![c] = IdleCall]
  /\ lastReturn' = Some([ uploadKey |-> uploadKey, secretCode |-> secretCode,
                          result |-> result ])
  /\ successes' = IF result.success /\ successes[uploadKey] < 2
                  THEN [successes EXCEPT ![uploadKey] = @ + 1]
                  ELSE successes

\* A plausible slip: the session is dropped on every attempt that is
\* turned down, so that a key cannot be tried twice.
UploadToSheetGetConsuming(c, uploadKey, secretCode, kvOk) ==
  /\ calls[c].pc = "idle"
  /\ \A d \in Calls : d < c => calls[d].pc # "idle"
  /\ IF ~IsSome(cfg.uploadSecret) \/ ~codeMatches(secretCode, Get(cfg.uploadSecret))
     THEN /\ Return(c, uploadKey, secretCode, Failure(MsgInvalidCode))
          /\ redis' = [redis EXCEPT !.upload[uploadKey] = Absent]
     ELSE /\ redis' = redis
          /\ IF kvOk /\ IsSome(redisGet(redis.upload[uploadKey]))
             THEN /\ calls' = [calls EXCEPT ![c] =
                                 [ pc |-> "gotData", uploadKey |-> uploadKey,
                                   secretCode |-> secretCode,
                                   data |-> redisGet(redis.upload[uploadKey]) ]]
                  /\ UNCHANGED << lastReturn, successes >>
             ELSE Return(c, uploadKey, secretCode, Failure(MsgExpired))
  /\ UNCHANGED << now, cfg, nextKey, uploadEvt, store, lastReq, attempts, rfqVars, chatVars >>

\* execute, up to and including `await redis.get`; kvOk = FALSE is the store
\* call rejecting, which the surrounding try/catch turns into a failure.
UploadToSheetGet(c, uploadKey, secretCode, kvOk) ==
  /\ calls[c].pc = "idle"
  /\ \A d \in Calls : d < c => calls[d].pc # "idle"
  /\ IF ~IsSome(cfg.uploadSecret)
     THEN Return(c, uploadKey, secretCode, Failure(MsgNotConfigured))
     ELSE IF ~codeMatches(secretCode, Get(cfg.uploadSecret))
     THEN Return(c, uploadKey, secretCode, Failure(MsgInvalidCode))
     ELSE IF ~kvOk
     THEN Return(c, uploadKey, secretCode, Failure(MsgFailed))
     ELSE LET data == redisGet(redis.upload[uploadKey]) IN
          IF ~IsSome(data)
          THEN Return(c, uploadKey, secretCode, Failure(MsgExpired))
          ELSE /\ calls' = [calls EXCEPT ![c] =
                              [ pc |-> "gotData", uploadKey |-> uploadKey,
                                secretCode |-> secretCode, data |-> data ]]
               /\ UNCHANGED << lastReturn, successes >>
  /\ UNCHANGED << now, cfg, redis, nextKey, uploadEvt, store, lastReq, attempts, rfqVars, chatVars >>

\* execute, from `await redis.delete` to the return.
UploadToSheetDelete(c, kvOk) ==
  /\ calls[c].pc = "gotData"
  /\ IF kvOk
     THEN /\ redis' = [redis EXCEPT !.upload[calls[c].uploadKey] = Absent]
          /\ Return(c, calls[c].uploadKey, calls[c].secretCode,
                    Success(MsgRetrieved, calls[c].data))
     ELSE /\ redis' = redis
          /\ Return(c, calls[c].uploadKey, calls[c].secretCode, Failure(MsgFailed))
  /\ UNCHANGED << now, cfg, nextKey, uploadEvt, store, lastReq, attempts, rfqVars, chatVars >>

(***************************************************************************)
(* The upload specification: uploads are handled one at a time, tool       *)
(* calls interleave at their awaits, the clock advances in hours.          *)
(***************************************************************************)
Hour == 60 * 60

UploadTick ==
  /\ now < MaxUploadTicks * Hour
  /\ now' = now + Hour
  /\ UNCHANGED << cfg, redis, nextKey, uploadEvt, calls, lastReturn, successes,
                  store, lastReq, attempts, rfqVars, chatVars >>

ABC123 == <<"A","B","C","1","2","3">>
abc123 == <<"a","b","c","1","2","3">>
abc123Padded == <<" ","a","b","c","1","2","3"," ">>
Abc123 == <<"A","b","c","1","2","3">>
abc1234 == <<"a","b","c","1","2","3","4">>

NoConfig ==
  [ apiKey |-> None, domainChat |-> None, promptsPerDay |-> None,
    uploadSecret |-> None, sheetId |-> None, slackSigningSecret |-> None ]

InitUploadVars ==
  /\ redis = RedisEmpty
  /\ nextKey = 0
  /\ uploadEvt = [h \in Hashes |-> None]
  /\ calls = [c \in Calls |-> IdleCall]
  /\ lastReturn = None
  /\ successes = [k \in UploadKeys |-> 0]

InitGuardVars ==
  /\ store = << >>
  /\ lastReq = << >>
  /\ attempts = << >>

\* No sweep running.  rec describes the last record a sweep worked on;
\* clean is the date of the latest sweep, kept while no send failed in it
\* and no sendRfqEmail call came after its start; after tells a running
\* sweep that it follows such a sweep of the same date.
IdleSweep ==
  [ pc |-> "idle", today |-> 0, all |-> << >>, todo |-> {}, sent |-> 0,
    errors |-> 0, rec |-> None, clean |-> None, after |-> FALSE ]

\* A delivery slot no Slack request has used.
IdleDelivery == [ pc |-> "idle", eventId |-> None, userText |-> << >>, dup |-> FALSE ]

\* An upload slot no request is using.
Stagings == 1..MaxCalls
IdleStaging == [ pc |-> "idle", rows |-> << >>, uploadKey |-> 0 ]

\* No WhatsApp webhook handled yet.
IdleTurn ==
  [ pc |-> "idle", message |-> None, userText |-> 0, aiMessages |-> << >>,
    before |-> << >>, effects |-> << >> ]

\* No streaming turn yet.
IdleStream ==
  [ pc |-> "idle", prelude |-> << >>, consumed |-> << >>, out |-> << >>,
    threw |-> FALSE ]

InitChatVars ==
  /\ stream = IdleStream
  /\ probe = None
  /\ slack = [d \in Deliveries |-> IdleDelivery]
  /\ slackDup = [e \in EventIds |-> FALSE]
  /\ nextMsg = 0
  /\ sheet1 = << >>
  /\ wa = IdleTurn
  /\ staging = [u \in Stagings |-> IdleStaging]

InitRfqVars ==
  /\ sheetLog = << >>
  /\ lastRfq = None
  /\ sweep = IdleSweep
  /\ mails = [q \in QuoteIds |-> <<0, 0, 0>>]

UploadTables == { TableA, TableB }
MatchingCodes == { Abc123 }
SecretCodes == { ABC123, abc123, abc123Padded, Abc123, abc1234 }
UploadSecrets == { None, Some(abc123), Some(<<"A","B","C","1","2","3","\t">>) }

InitUpload ==
  /\ now = 0
  /\ cfg = [NoConfig EXCEPT !.uploadSecret = Some(abc123)]
  /\ InitUploadVars
  /\ InitGuardVars
  /\ InitRfqVars
  /\ InitChatVars

\* Uploads and tool calls handled one at a time.
NextUpload ==
  \/ \E rows \in UploadTables : HandleProductUpload(rows)
  \/ \E rows \in UploadTables : HandleStreamPrompt(rows)
  \/ \E k \in UploadKeys, code \in MatchingCodes, kvOk \in BOOLEAN :
       UploadToSheetGet(1, k, code, kvOk)
  \/ \E kvOk \in BOOLEAN : UploadToSheetDelete(1, kvOk)
  \/ UploadTick

SpecUpload == InitUpload /\ [][NextUpload]_vars

\* Tool calls that overlap at their awaits.
NextUploadRace ==
  \/ \E rows \in UploadTables : HandleProductUpload(rows)
  \/ \E c \in Calls, k \in UploadKeys, code \in MatchingCodes, kvOk \in BOOLEAN :
       UploadToSheetGet(c, k, code, kvOk)
  \/ \E c \in Calls, kvOk \in BOOLEAN : UploadToSheetDelete(c, kvOk)

SpecUploadRace == InitUpload /\ [][NextUploadRace]_vars

\* The confirmation step under every configured secret and supplied code.
InitConfirm ==
  /\ now = 0
  /\ cfg \in { [NoConfig EXCEPT !.uploadSecret = s] : s \in UploadSecrets }
  /\ InitUploadVars
  /\ InitGuardVars
  /\ InitRfqVars
  /\ InitChatVars

NextConfirm ==
  \/ HandleProductUpload(TableA)
  \/ \E k \in UploadKeys, code \in SecretCodes, kvOk \in BOOLEAN :
       UploadToSheetGet(1, k, code, kvOk)
  \/ \E kvOk \in BOOLEAN : UploadToSheetDelete(1, kvOk)

SpecConfirm == InitConfirm /\ [][NextConfirm]_vars

(***************************************************************************)
(* C1.  Idempotent upload: an upload of content whose previous upload      *)
(* session is still stored (not expired, not consumed) emits the same      *)
(* uploadKey with alreadyExists = true and creates no product-upload       *)
(* entry; the first upload of a content emits alreadyExists = false and    *)
(* stages the rows under a new key.                                        *)
(***************************************************************************)
C1_IdempotentUpload ==
  [][ \A rows \in UploadTables :
        (HandleProductUpload(rows) \/ HandleStreamPrompt(rows)) =>
          LET h == hashRows(rows)
              ev == Get(uploadEvt'[h])
          IN /\ IsSome(uploadEvt'[h])
             /\ ( /\ IsSome(uploadEvt[h])
                  /\ IsSome(redisGet(redis.upload[Get(uploadEvt[h]).uploadKey])) )
                => /\ ev.uploadKey = Get(uploadEvt[h]).uploadKey
                   /\ ev.alreadyExists
                   /\ redis'.upload = redis.upload
                   /\ nextKey' = nextKey
             /\ ~IsSome(uploadEvt[h])
                => /\ ~ev.alreadyExists
                   /\ ev.uploadKey \notin { k \in UploadKeys : redis.upload[k] # Absent }
                   /\ redis'.upload[ev.uploadKey].val = Some(TableId(rows))
                   /\ redis'.upload[ev.uploadKey].exp > now
    ]_vars

C1_Witness ==
  \E h \in Hashes :
    /\ IsSome(uploadEvt[h])
    /\ Get(uploadEvt[h]).alreadyExists
    /\ IsSome(redisGet(redis.upload[Get(uploadEvt[h]).uploadKey]))

(***************************************************************************)
(* C2.  Confirmation-code matching is case-insensitive and ignores         *)
(* surrounding whitespace: a call is refused as "Invalid secret code"      *)
(* exactly when trim(lowercase(code)) differs from                         *)
(* trim(lowercase(expected)); "ABC123", " abc123 " and "Abc123" match      *)
(* "abc123" and "abc1234" does not.                                        *)
(***************************************************************************)
C2_CodeMatching ==
  /\ (IsSome(lastReturn) /\ IsSome(cfg.uploadSecret)) =>
       LET r == Get(lastReturn) IN
       (r.result.message # MsgInvalidCode)
         <=> (trimEnd(trimStart(toLowerCase(r.secretCode)))
                = trimEnd(trimStart(toLowerCase(Get(cfg.uploadSecret)))))
  /\ \A c \in Calls :
       (calls[c].pc = "gotData" /\ cfg.uploadSecret = Some(abc123)) =>
         calls[c].secretCode \in { ABC123, abc123Padded, Abc123, abc123 }
  /\ (IsSome(lastReturn) /\ cfg.uploadSecret = Some(abc123)) =>
       LET r == Get(lastReturn) IN
       /\ r.secretCode \in { ABC123, abc123Padded, Abc123 }
            => r.result.message # MsgInvalidCode
       /\ r.secretCode = abc1234 => r.result.message = MsgInvalidCode

C2_Witness ==
  /\ cfg.uploadSecret = Some(abc123)
  /\ IsSome(lastReturn)
  /\ Get(lastReturn).secretCode = abc123Padded
  /\ Get(lastReturn).result.success

(***************************************************************************)
(* C3.  Upload sessions are single-use: for every upload key at most one   *)
(* uploadToSheet call returns success = true with its staged rows, and     *)
(* once one has, product-upload:<key> is absent.                           *)
(***************************************************************************)
C3_SingleUse ==
  \A k \in UploadKeys :
    /\ successes[k] <= 1
    /\ successes[k] >= 1 => ~IsSome(redisGet(redis.upload[k]))

(***************************************************************************)
(* Access control.  Every request passes the global ApiKeyGuard and then,  *)
(* on the routes that carry it, the OpenAccessPromptLimitGuard, whose      *)
(* counters live in an in-memory map keyed by host, ip and Lagos date.     *)
(***************************************************************************)
Route(name, isPublic, limited) ==
  [ name |-> name, isPublic |-> isPublic, limited |-> limited ]

Routes ==
  { Route("POST chat/prompt", FALSE, TRUE),
    Route("POST chat/prompt/stream", FALSE, TRUE),
    Route("POST chat/products/upload", FALSE, TRUE),
    Route("GET chat/rfq/:quoteNumber/download", TRUE, FALSE),
    Route("POST chat/rfq/followups", FALSE, FALSE),
    Route("GET chat/webhook", FALSE, FALSE),
    Route("POST chat/webhook", FALSE, FALSE),
    Route("GET chat/slack/add", TRUE, FALSE),
    Route("GET chat/slack/events", TRUE, FALSE),
    Route("POST chat/slack/events", TRUE, FALSE),
    Route("GET /", FALSE, FALSE),
    Route("GET branding", FALSE, FALSE) }

\* JavaScript truthiness of an optional string.
Truthy(o) == IsSome(o) /\ Get(o) # << >>

ApiKeyGuard(route, providedKey) ==
  IF route.isPublic THEN TRUE
  ELSE IF ~Truthy(cfg.apiKey) THEN TRUE
  ELSE ~(~Truthy(providedKey) \/ providedKey # cfg.apiKey)

RECURSIVE split(_, _)
split(s, sep) ==
  IF \A i \in 1..Len(s) : s[i] # sep
  THEN << s >>
  ELSE LET i == CHOOSE i \in 1..Len(s) :
                  s[i] = sep /\ \A j \in 1..(i - 1) : s[j] # sep
       IN  << SubSeq(s, 1, i - 1) >> \o split(SubSeq(s, i + 1, Len(s)), sep)

domainChatSet(domainChatRaw) ==
  IF ~Truthy(domainChatRaw) THEN {}
  ELSE LET parts == split(Get(domainChatRaw), ",")
       IN  { toLowerCase(trim(parts[i])) : i \in 1..Len(parts) } \ { << >> }

unknown == <<"u","n","k","n","o","w","n">>

requestIp(ip) == trim(IF Truthy(ip) THEN Get(ip) ELSE unknown)

requestHost(hostHeader) ==
  toLowerCase(split(IF Truthy(hostHeader) THEN Get(hostHeader) ELSE << >>, ":")[1])

Day == 24 * Hour
WINDOW_TZ == Hour

dateKeyUtc(t) == t \div Day

\* The YYYY-MM-DD date in Africa/Lagos (UTC+1, no daylight saving), as a
\* day number.
dateKey(t) == (t + WINDOW_TZ) \div Day

DEFAULT_PROMPTS_PER_DAY_WHEN_DOMAIN_CHAT_SET == 5

Max(a, b) == IF a >= b THEN a ELSE b

\* Number(undefined) and Number of a non-numeric string are NaN, and
\* NaN || d and 0 || d are d.
promptsPerDayChat ==
  LET n == IF IsSome(cfg.promptsPerDay) THEN Number(Get(cfg.promptsPerDay))
           ELSE None
  IN  Max(1, IF IsSome(n) /\ Get(n) # 0 THEN Get(n)
             ELSE DEFAULT_PROMPTS_PER_DAY_WHEN_DOMAIN_CHAT_SET)

storeGet(st, key) == IF key \in DOMAIN st THEN st[key] ELSE 0

OpenAccessPromptLimitGuard(st, hostHeader, ip, t) ==
  LET domains == domainChatSet(cfg.domainChat)
      host == requestHost(hostHeader)
      key == << host, requestIp(ip), dateKey(t) >>
      maxPrompts == promptsPerDayChat
      count == storeGet(st, key)
  IN  IF Truthy(cfg.apiKey) THEN [ pass |-> TRUE, store |-> st ]
      ELSE IF domains = {} THEN [ pass |-> TRUE, store |-> st ]
      ELSE IF host \notin domains THEN [ pass |-> TRUE, store |-> st ]
      ELSE IF count >= maxPrompts THEN [ pass |-> FALSE, store |-> st ]
      ELSE [ pass |-> TRUE, store |-> (key :> (count + 1)) @@ st ]

\* Book-keeping for the properties: which site a Host header addresses, the
\* local midnight (23:00 UTC) that starts each Lagos day, and how many
\* requests each (site, ip, day) has made on the limited routes.
HostHeaders ==
  { [ hdr |-> Some(<<"a">>), site |-> "a" ],
    [ hdr |-> Some(<<"A", ":", "8">>), site |-> "a" ],
    [ hdr |-> Some(<<"b">>), site |-> "b" ] }
Ips == { Some(<<"1">>), Some(<<"2">>) }
ProvidedKeys == { None, Some(<<"k">>), Some(<<"x">>) }
DomainsAC == <<" ", "A", " ", ",", "c">>
LagosDay(t) ==
  CHOOSE d \in 0..(MaxGuardTicks + 2) : d * Day - Hour <= t /\ t < (d + 1) * Day - Hour

RECURSIVE SumOver(_, _)
SumOver(f, keys) ==
  IF keys = {} THEN 0
  ELSE LET k == CHOOSE k \in keys : TRUE
       IN  f[k] + SumOver(f, keys \ {k})

Request(route, h, ip, providedKey) ==
  LET authed == ApiKeyGuard(route, providedKey)
      lim == IF authed /\ route.limited
             THEN OpenAccessPromptLimitGuard(store, h.hdr, ip, now)
             ELSE [ pass |-> TRUE, store |-> store ]
      who == << h.site, ip, LagosDay(now) >>
      n == storeGet(attempts, who) + 1
  IN  /\ route.limited => SumOver(attempts, DOMAIN attempts) < MaxRequests
      /\ store' = lim.store
      /\ attempts' = IF route.limited THEN (who :> n) @@ attempts ELSE attempts
      /\ lastReq' = Some([ route |-> route, site |-> h.site,
                           providedKey |-> providedKey,
                           n |-> IF route.limited THEN n ELSE 0,
                           status |-> IF ~authed THEN 401
                                      ELSE IF ~lim.pass THEN 429 ELSE 200,
                           handlerRan |-> authed /\ lim.pass ])
      /\ UNCHANGED << now, cfg, redis, nextKey, uploadEvt, calls, lastReturn,
                      successes, rfqVars, chatVars >>

GuardTick ==
  /\ now < MaxGuardTicks * 23 * Hour
  /\ now' = now + 23 * Hour
  /\ UNCHANGED << cfg, redis, nextKey, uploadEvt, calls, lastReturn, successes,
                  store, lastReq, attempts, rfqVars, chatVars >>

LimitedRoutes == { r \in Routes : r.limited }
LimitRoutes == LimitedRoutes \cup { Route("POST chat/rfq/followups", FALSE, FALSE) }

\* Open access: no API key; DOMAIN_CHAT listing hosts under each ceiling
\* setting, and DOMAIN_CHAT unset or empty.
InitLimit ==
  /\ now = 0
  /\ cfg \in { [NoConfig EXCEPT !.domainChat = Some(DomainsAC), !.promptsPerDay = p] :
               p \in { None, Some(<<"0">>), Some(<<"1">>), Some(<<" ", "2">>) } }
          \cup { [NoConfig EXCEPT !.domainChat = d, !.promptsPerDay = Some(<<"1">>)] :
                  d \in { None, Some(<<",">>) } }
  /\ InitUploadVars
  /\ InitGuardVars
  /\ InitRfqVars
  /\ InitChatVars

NextLimit ==
  \/ \E route \in LimitRoutes, h \in HostHeaders, ip \in Ips :
       Request(route, h, ip, None)
  \/ GuardTick

SpecLimit == InitLimit /\ [][NextLimit]_vars

\* Every route, with and without a configured API key.
InitApiKey ==
  /\ now = 0
  /\ cfg \in { [NoConfig EXCEPT !.apiKey = a, !.domainChat = Some(DomainsAC),
                                !.promptsPerDay = Some(<<"1">>)] :
               a \in { None, Some(<< >>), Some(<<"k">>) } }
  /\ InitUploadVars
  /\ InitGuardVars
  /\ InitRfqVars
  /\ InitChatVars

NextApiKey ==
  \E route \in Routes, h \in HostHeaders, providedKey \in ProvidedKeys :
    Request(route, h, Some(<<"1">>), providedKey)

SpecApiKey == InitApiKey /\ [][NextApiKey]_vars

(***************************************************************************)
(* C4.  Open-access rate limiting: with no API key, on a host listed in    *)
(* DOMAIN_CHAT and a ceiling of N prompts per day, the n-th request of an  *)
(* (host, ip) pair within one Africa/Lagos calendar day is admitted when   *)
(* n <= N and rejected with 429 when n > N; a request to a host that is    *)
(* not listed is always admitted.  n counts only the pair's own requests   *)
(* of that day, so other ips, hosts and days have no influence.            *)
(***************************************************************************)
C4_Ceiling ==
  CASE cfg.promptsPerDay = Some(<<"1">>) -> 1
    [] cfg.promptsPerDay = Some(<<" ", "2">>) -> 2
    [] OTHER -> 5

C4_OpenAccessLimit ==
  (IsSome(lastReq) /\ cfg.apiKey = None /\ Get(lastReq).route.limited) =>
    LET r == Get(lastReq)
    IN  IF cfg.domainChat = Some(DomainsAC) /\ r.site \in { "a", "c" }
        THEN /\ r.n <= C4_Ceiling => (r.status = 200 /\ r.handlerRan)
             /\ r.n > C4_Ceiling => (r.status = 429 /\ ~r.handlerRan)
        ELSE r.status = 200 /\ r.handlerRan

C4_Witness ==
  /\ IsSome(lastReq)
  /\ cfg.apiKey = None
  /\ cfg.domainChat = Some(DomainsAC)
  /\ cfg.promptsPerDay = Some(<<"1">>)
  /\ Get(lastReq).site = "a"
  /\ Get(lastReq).n = 2
  /\ Get(lastReq).status = 429
  /\ LagosDay(now) = 1
  /\ \E ip \in Ips : storeGet(attempts, << "a", ip, 0 >>) = 1

(***************************************************************************)
(* C5.  Global key check: when API_KEY is configured, no handler on any    *)
(* route runs for a request whose x-api-key header differs from the        *)
(* configured key; such a request is rejected with 401.                    *)
(***************************************************************************)
C5_GlobalKeyCheck ==
  (IsSome(lastReq) /\ Truthy(cfg.apiKey)
     /\ Get(lastReq).providedKey # cfg.apiKey) =>
       (Get(lastReq).status = 401 /\ ~Get(lastReq).handlerRan)

(***************************************************************************)
(* The processRfq tool.  Prices and quantities are integers; dates are day *)
(* numbers (an ISO date string orders as its day number does).  The fields *)
(* contactPhone, deliveryDate and notes are copied through unread and are  *)
(* left out of the records.                                                *)
(***************************************************************************)
RFQ_DATA_TTL == 60 * 60 * 24 * 30
RFQ_FOLLOWUP_TTL == 60 * 60 * 24 * 7

isoDate(offset) == (now + offset) \div Day

\* Math.random() picks the suffix: any value, used before or not.
generateQuoteNumber(suffix) == << isoDate(0), suffix >>

DigitChars == <<"0","1","2","3","4","5","6","7","8","9">>

RECURSIVE toDigits(_)
toDigits(n) ==
  IF n < 10 THEN << DigitChars[n + 1] >>
  ELSE Append(toDigits(n \div 10), DigitChars[(n % 10) + 1])

RECURSIVE groupThousands(_)
groupThousands(s) ==
  IF Len(s) <= 3 THEN s
  ELSE groupThousands(SubSeq(s, 1, Len(s) - 3)) \o <<",">>
         \o SubSeq(s, Len(s) - 2, Len(s))

\* n.toFixed(2) with thousands separators, for an integer n.
fmt(n) ==
  (IF n < 0 THEN <<"-">> ELSE << >>)
    \o groupThousands(toDigits(IF n < 0 THEN 0 - n ELSE n))
    \o <<".", "0", "0">>

TBD == <<"T","B","D">>

MsgContactRequired == "Contact name is required."
MsgItemsRequired == "At least one item is required."
MsgShipToRequired == "Ship-to destination is required."
MsgRfqFailed == "Failed to process RFQ"

\* A plausible slip: emptiness tested without trimming.
validateNoTrim(contactName, items, shipTo) ==
  IF contactName = << >> THEN Some(MsgContactRequired)
  ELSE IF Len(items) = 0 THEN Some(MsgItemsRequired)
  ELSE IF shipTo = << >> THEN Some(MsgShipToRequired)
  ELSE None

\* The validation block: the message of the first failed check, if any.
validate(contactName, items, shipTo) ==
  IF trim(contactName) = << >> THEN Some(MsgContactRequired)
  ELSE IF Len(items) = 0 THEN Some(MsgItemsRequired)
  ELSE IF trim(shipTo) = << >> THEN Some(MsgShipToRequired)
  ELSE None

\* A plausible slip: an explicit price of 0 taken as a price.
resolveUnitPriceKeepZero(explicit, catalogEntry) ==
  IF IsSome(explicit) THEN explicit
  ELSE IF IsSome(catalogEntry) THEN Get(catalogEntry).price ELSE None

\* item.unitPrice != null && item.unitPrice > 0 ? item.unitPrice
\*                                              : (catalogEntry?.price ?? null)
resolveUnitPrice(explicit, catalogEntry) ==
  IF IsSome(explicit) /\ Get(explicit) > 0 THEN explicit
  ELSE IF IsSome(catalogEntry) THEN Get(catalogEntry).price ELSE None

lookupCatalog(catalog, sku) ==
  LET skuKey == toUpperCase(trim(sku))
  IN  IF IsSome(catalog) /\ CatalogHas(Get(catalog), skuKey)
      THEN Some(CatalogGet(Get(catalog), skuKey)) ELSE None

LineItem(catalog, item) ==
  LET catalogEntry == lookupCatalog(catalog, item.sku)
      unitPrice == resolveUnitPrice(item.unitPrice, catalogEntry)
  IN  [ sku |-> item.sku, qty |-> item.qty,
        unit |-> IF IsSome(item.unit) THEN Get(item.unit)
                 ELSE IF IsSome(catalogEntry) THEN Get(catalogEntry).unit
                 ELSE pcs,
        unitPrice |-> unitPrice,
        lineTotal |-> IF IsSome(unitPrice) THEN Some(item.qty * Get(unitPrice))
                      ELSE None ]

\* A plausible slip: the unit prices are added up, not the line totals.
RECURSIVE SubtotalUnitPrices(_)
SubtotalUnitPrices(lineItems) ==
  IF lineItems = << >> THEN 0
  ELSE OrElse(Head(lineItems).unitPrice, 0) + SubtotalUnitPrices(Tail(lineItems))

RECURSIVE Subtotal(_)
Subtotal(lineItems) ==
  IF lineItems = << >> THEN 0
  ELSE OrElse(Head(lineItems).lineTotal, 0) + Subtotal(Tail(lineItems))

RECURSIVE MissingSkus(_)
MissingSkus(lineItems) ==
  IF lineItems = << >> THEN << >>
  ELSE (IF IsSome(Head(lineItems).unitPrice) THEN << >>
        ELSE << Head(lineItems).sku >>) \o MissingSkus(Tail(lineItems))

RfqFailure(msg) ==
  [ success |-> FALSE, message |-> msg, quoteNumber |-> None,
    lineItems |-> << >>, total |-> << >>, missingPriceSkus |-> << >>,
    followUpDates |-> << >>, loggedToSheets |-> FALSE, catalogUsed |-> FALSE ]

KvFailures == 0..3

\* execute: the return value, the store and the spreadsheet after the call.
\* kvFail names the store call that rejects: 1 the catalog read, 2 the
\* rfq:data write, 3 the rfq:followup write, 0 none; sheetOk = FALSE is
\* sheets.append rejecting.
ProcessRfq(r, log, inp, suffix, sheetOk, kvFail) ==
  LET invalid == validate(inp.contactName, inp.items, inp.shipTo)
      quoteNumber == generateQuoteNumber(suffix)
      quoteDate == isoDate(0)
      validUntil == isoDate(30 * Day)
      catalog == redisGet(r.catalog)
      lineItems == [i \in 1..Len(inp.items) |-> LineItem(catalog, inp.items[i])]
      hasAllPrices == \A i \in 1..Len(lineItems) : IsSome(lineItems[i].unitPrice)
      total == IF hasAllPrices THEN fmt(Subtotal(lineItems)) ELSE TBD
      rfqData == [ quoteNumber |-> quoteNumber, quoteDate |-> quoteDate,
                   validUntil |-> validUntil, contactName |-> inp.contactName,
                   contactEmail |-> inp.contactEmail, lineItems |-> lineItems,
                   shipTo |-> inp.shipTo, total |-> total,
                   hasAllPrices |-> hasAllPrices ]
      followUpDates == << isoDate(1 * Day), isoDate(2 * Day), isoDate(3 * Day) >>
      followup == [ quoteNumber |-> quoteNumber,
                    recipientEmail |-> inp.contactEmail,
                    followUpDates |-> followUpDates,
                    followUpSent |-> << FALSE, FALSE, FALSE >>,
                    status |-> "pending" ]
      r1 == [r EXCEPT !.rfqData[quoteNumber] = Entry(rfqData, RFQ_DATA_TTL)]
      r2 == [r1 EXCEPT !.followup[quoteNumber] = Entry(followup, RFQ_FOLLOWUP_TTL)]
      loggedToSheets == Truthy(cfg.sheetId) /\ sheetOk
      row == [ quoteNumber |-> quoteNumber, contactName |-> inp.contactName,
               status |-> "Pending", total |-> total,
               followUp |-> followUpDates[1] ]
  IN  IF IsSome(invalid)
      THEN [ result |-> RfqFailure(Get(invalid)), redis |-> r, sheetLog |-> log ]
      ELSE IF kvFail \in { 1, 2 }
      THEN [ result |-> RfqFailure(MsgRfqFailed), redis |-> r, sheetLog |-> log ]
      ELSE IF kvFail = 3
      THEN [ result |-> RfqFailure(MsgRfqFailed), redis |-> r1, sheetLog |-> log ]
      ELSE [ result |-> [ success |-> TRUE, message |-> "",
                          quoteNumber |-> Some(quoteNumber),
                          lineItems |-> lineItems, total |-> total,
                          missingPriceSkus |-> MissingSkus(lineItems),
                          followUpDates |-> followUpDates,
                          loggedToSheets |-> loggedToSheets,
                          catalogUsed |-> IsSome(catalog) ],
             redis |-> r2,
             sheetLog |-> IF loggedToSheets THEN Append(log, row) ELSE log ]

ProcessRfqCall(inp, suffix, sheetOk, kvFail) ==
  LET res == ProcessRfq(redis, sheetLog, inp, suffix, sheetOk, kvFail)
  IN  /\ Len(res.sheetLog) <= MaxSheetRows
      /\ redis' = res.redis
      /\ sheetLog' = res.sheetLog
      /\ lastRfq' = Some([ input |-> inp, result |-> res.result ])
      /\ UNCHANGED << now, cfg, nextKey, uploadEvt, calls, lastReturn, successes,
                      store, lastReq, attempts, sweep, mails, chatVars >>

Item(sku, unit, unitPrice) ==
  [ sku |-> sku, qty |-> 2, unit |-> unit, unitPrice |-> unitPrice ]

\* Line items: W1 and X2 are catalog SKUs of TableA (X2 without a price),
\* W1 of TableB; ZZ is in no catalog.
ItemsW1X2 ==
  << Item(<<" ", "w", "1">>, None, None),
     Item(<<"W", "1">>, Some(<<"k", "g">>), Some(0)),
     Item(<<"X", "2">>, None, Some(3)) >>
ItemsX2Zz ==
  << Item(<<"x", "2", " ">>, None, None),
     Item(<<"z", "z">>, None, Some(0)),
     Item(<<"Z", "Z">>, None, Some(4)) >>

Rfq(contactName, items, shipTo) ==
  [ contactName |-> contactName, contactEmail |-> None, items |-> items,
    shipTo |-> shipTo ]

Al == <<"A", "l">>
Quay == <<"Q">>

CompleteRfqs == { Rfq(Al, ItemsW1X2, Quay), Rfq(Al, ItemsX2Zz, Quay) }
IncompleteRfqs ==
  { Rfq(<< >>, ItemsW1X2, Quay), Rfq(<<" ", "\t">>, ItemsW1X2, Quay),
    Rfq(Al, << >>, Quay), Rfq(Al, ItemsW1X2, << >>),
    Rfq(Al, ItemsW1X2, <<" ">>), Rfq(<<" ">>, << >>, << >>) }

Sheet1 == <<"s">>

InitRfq ==
  /\ now = 0
  /\ cfg \in { [NoConfig EXCEPT !.sheetId = i] : i \in { None, Some(Sheet1) } }
  /\ InitUploadVars
  /\ InitGuardVars
  /\ InitRfqVars
  /\ InitChatVars

\* One quote number is drawn again and again, so calls also collide on it.
NextRfq ==
  \/ \E rows \in UploadTables : HandleProductUpload(rows)
  \/ \E inp \in IncompleteRfqs, kvFail \in { 0, 3 } :
       ProcessRfqCall(inp, 1, TRUE, kvFail)
  \/ \E inp \in CompleteRfqs, sheetOk \in BOOLEAN, kvFail \in KvFailures :
       ProcessRfqCall(inp, 1, sheetOk, kvFail)

SpecRfq == InitRfq /\ [][NextRfq]_vars

(***************************************************************************)
(* C6.  RFQ completeness gate: a processRfq call whose contactName is      *)
(* empty or whitespace, whose item list is empty, or whose shipTo is empty *)
(* or whitespace returns success = false with a validation message and     *)
(* leaves the key-value store and the spreadsheet exactly as they were.    *)
(***************************************************************************)
C6_Blank(str) == \A i \in 1..Len(str) : IsWhitespace(str[i])

\* A step of processRfq: the only operation that writes these.
RfqStep ==
  \/ lastRfq' # lastRfq
  \/ sheetLog' # sheetLog
  \/ redis'.rfqData # redis.rfqData
  \/ redis'.followup # redis.followup

C6_CompletenessGate ==
  [][ ( /\ RfqStep
        /\ \/ C6_Blank(Get(lastRfq').input.contactName)
           \/ Get(lastRfq').input.items = << >>
           \/ C6_Blank(Get(lastRfq').input.shipTo) )
      => /\ ~Get(lastRfq').result.success
         /\ Get(lastRfq').result.message
              \in { MsgContactRequired, MsgItemsRequired, MsgShipToRequired }
         /\ redis' = redis
         /\ sheetLog' = sheetLog
    ]_vars

C6_Witness ==
  /\ IsSome(lastRfq)
  /\ Get(lastRfq).input.shipTo = <<" ">>
  /\ Get(lastRfq).result.message = MsgShipToRequired
  /\ \E q \in QuoteIds : IsSome(redisGet(redis.rfqData[q]))

(***************************************************************************)
(* C7.  RFQ price backfill: in a successful processRfq call, an item with  *)
(* no explicit unitPrice, or one of exactly 0, whose SKU (trimmed and      *)
(* upper-cased) is in the catalog gets the catalog price; an item with an  *)
(* explicit positive unitPrice keeps it whatever the catalog holds; an     *)
(* item that gets a price from neither has unit price null and its SKU in  *)
(* missingPriceSkus.                                                       *)
(***************************************************************************)
C7_PriceBackfill ==
  [][ (RfqStep /\ Get(lastRfq').result.success)
      => LET inp == Get(lastRfq').input
             res == Get(lastRfq').result
             catalog == redisGet(redis.catalog)
             missing == { res.missingPriceSkus[m] : m \in 1..Len(res.missingPriceSkus) }
         IN  \A i \in 1..Len(inp.items) :
               LET item == inp.items[i]
                   out == res.lineItems[i]
                   key == toUpperCase(trim(item.sku))
                   hits == IF IsSome(catalog)
                           THEN { j \in 1..Len(Get(catalog)) : Get(catalog)[j].sku = key }
                           ELSE {}
                   unpriced == item.unitPrice = None \/ item.unitPrice = Some(0)
                   positive == IsSome(item.unitPrice) /\ Get(item.unitPrice) > 0
               IN  /\ (unpriced /\ hits # {})
                        => \A j \in hits : out.unitPrice = Get(catalog)[j].price
                   /\ positive => out.unitPrice = item.unitPrice
                   /\ (unpriced /\ \A j \in hits : Get(catalog)[j].price = None)
                        => (out.unitPrice = None /\ item.sku \in missing)
    ]_vars

C7_Witness ==
  /\ IsSome(lastRfq)
  /\ Get(lastRfq).result.success
  /\ Get(lastRfq).input.items = ItemsW1X2
  /\ Get(lastRfq).result.lineItems[1].unitPrice = Some(5)
  /\ Get(lastRfq).result.lineItems[2].unitPrice = Some(5)
  /\ Get(lastRfq).result.lineItems[3].unitPrice = Some(3)
  /\ Get(lastRfq).result.missingPriceSkus = << >>

(***************************************************************************)
(* The sendRfqEmail tool and the follow-up sweep (triggerFollowups).  A    *)
(* sweep reads all follow-up records at once, then handles them one by one *)
(* in no fixed order; other calls may run between two records.             *)
(***************************************************************************)
Mail1 == <<"m", "@", "x">>

MsgQuoteNotFound == "Quote not found or has expired. Please re-submit the RFQ."
MsgSendFailed == "Failed to send quote email"
MsgQuoteSent == "Quote sent."

\* A plausible slip: the records are updated before the email is handed to
\* the mailer.
SendRfqEmailWriteFirst(r, quoteNumber, recipientEmail, mailOk) ==
  LET rfqData == redisGet(r.rfqData[quoteNumber])
      followup == redisGet(r.followup[quoteNumber])
      r1 == IF IsSome(followup)
            THEN [r EXCEPT !.followup[quoteNumber] =
                    Entry([Get(followup) EXCEPT !.recipientEmail = Some(recipientEmail),
                                                !.status = "email_sent"],
                          RFQ_FOLLOWUP_TTL)]
            ELSE r
      r2 == [r1 EXCEPT !.rfqData[quoteNumber] =
               Entry([Get(rfqData) EXCEPT !.contactEmail = Some(recipientEmail)],
                     RFQ_DATA_TTL)]
  IN  IF ~IsSome(rfqData)
      THEN [ success |-> FALSE, message |-> MsgQuoteNotFound, mailed |-> FALSE,
             redis |-> r ]
      ELSE [ success |-> mailOk,
             message |-> IF mailOk THEN MsgQuoteSent ELSE MsgSendFailed,
             mailed |-> mailOk, redis |-> r2 ]

\* execute of sendRfqEmail: what it returns, whether the quote email went
\* out (mailed) and the store after the call; mailOk = FALSE is mailer.sendEmail rejecting.
SendRfqEmail(r, quoteNumber, recipientEmail, mailOk) ==
  LET rfqData == redisGet(r.rfqData[quoteNumber])
      followup == redisGet(r.followup[quoteNumber])
      r1 == IF IsSome(followup)
            THEN [r EXCEPT !.followup[quoteNumber] =
                    Entry([Get(followup) EXCEPT !.recipientEmail = Some(recipientEmail),
                                                !.status = "email_sent"],
                          RFQ_FOLLOWUP_TTL)]
            ELSE r
      r2 == [r1 EXCEPT !.rfqData[quoteNumber] =
               Entry([Get(rfqData) EXCEPT !.contactEmail = Some(recipientEmail)],
                     RFQ_DATA_TTL)]
  IN  IF ~IsSome(rfqData)
      THEN [ success |-> FALSE, message |-> MsgQuoteNotFound, mailed |-> FALSE,
             redis |-> r ]
      ELSE IF ~mailOk
      THEN [ success |-> FALSE, message |-> MsgSendFailed, mailed |-> FALSE,
             redis |-> r ]
      ELSE [ success |-> TRUE, message |-> MsgQuoteSent, mailed |-> TRUE,
             redis |-> r2 ]

SendRfqEmailCall(quoteNumber, recipientEmail, mailOk) ==
  /\ redis' = SendRfqEmail(redis, quoteNumber, recipientEmail, mailOk).redis
  /\ sweep' = [sweep EXCEPT !.clean = None]
  /\ UNCHANGED << now, cfg, nextKey, uploadEvt, calls, lastReturn, successes,
                  store, lastReq, attempts, sheetLog, lastRfq, mails, chatVars >>

\* A plausible slip: the loop does not stop at a date still to come.
isDueAlways(date, today) == TRUE

\* if (followup.followUpDates[i] > today) break
isDue(date, today) == ~(date > today)

\* The for loop over the three reminders from index i on: the flags after
\* it, the reminders it attempted and those the mailer accepted.
RECURSIVE FollowupLoop(_, _, _, _, _)
FollowupLoop(i, followUpDates, followUpSent, today, mailOk) ==
  IF i > Len(followUpDates)
  THEN [ followUpSent |-> followUpSent, tried |-> {}, ok |-> {} ]
  ELSE IF followUpSent[i]
  THEN FollowupLoop(i + 1, followUpDates, followUpSent, today, mailOk)
  ELSE IF ~isDue(followUpDates[i], today)
  THEN [ followUpSent |-> followUpSent, tried |-> {}, ok |-> {} ]
  ELSE LET rest == FollowupLoop(i + 1, followUpDates,
                                IF mailOk[i]
                                THEN [followUpSent EXCEPT ![i] = TRUE]
                                ELSE followUpSent,
                                today, mailOk)
       IN  [ followUpSent |-> rest.followUpSent,
             tried |-> {i} \cup rest.tried,
             ok |-> (IF mailOk[i] THEN {i} ELSE {}) \cup rest.ok ]

SweepStart ==
  /\ sweep.pc = "idle"
  /\ sweep' = [sweep EXCEPT
                 !.pc = "running",
                 !.today = now \div Day,
                 !.all = [q \in QuoteIds |-> redisGet(redis.followup[q])],
                 !.todo = { q \in QuoteIds : IsSome(redisGet(redis.followup[q])) },
                 !.sent = 0, !.errors = 0,
                 !.after = (sweep.clean = Some(now \div Day)),
                 !.clean = Some(now \div Day)]
  /\ UNCHANGED << now, cfg, redis, nextKey, uploadEvt, calls, lastReturn,
                  successes, store, lastReq, attempts, sheetLog, lastRfq, mails, chatVars >>

Bump(n) == IF n < 2 THEN n + 1 ELSE n

\* A plausible slip: the status is not looked at.
eligibleAnyStatus(followup) == Truthy(followup.recipientEmail)

\* `if (followup.status !== 'email_sent' || !followup.recipientEmail) continue`
eligible(followup) ==
  followup.status = "email_sent" /\ Truthy(followup.recipientEmail)

\* One iteration of `for (const followup of Object.values(all))`.  mailOk[i]
\* = FALSE is the i-th reminder's sendEmail rejecting; kvOk = FALSE is the
\* closing redisService.set rejecting, which ends triggerFollowups with the
\* rejection.
SweepRecord(q, mailOk, kvOk) ==
  LET followup == Get(sweep.all[q])
      skip == ~eligible(followup)
      rfqData == redisGet(redis.rfqData[q])
      loop == FollowupLoop(1, followup.followUpDates, followup.followUpSent,
                           sweep.today, mailOk)
      updated == [followup EXCEPT !.followUpSent = loop.followUpSent]
      errors == Cardinality(loop.tried \ loop.ok)
      sent == Cardinality(loop.ok)
      rec == [ q |-> q, today |-> sweep.today, tried |-> loop.tried,
               ok |-> loop.ok, wrote |-> loop.followUpSent, stored |-> kvOk,
               afterClean |-> sweep.after ]
      clean == IF errors = 0 THEN sweep.clean ELSE None
  IN  /\ sweep.pc = "running"
      /\ q \in sweep.todo
      /\ IF skip \/ ~IsSome(rfqData)
         THEN /\ sweep' = [sweep EXCEPT !.todo = @ \ {q}]
              /\ UNCHANGED << redis, mails >>
         ELSE /\ mails' = [mails EXCEPT ![q] =
                             [i \in 1..3 |-> IF i \in loop.ok THEN Bump(@[i]) ELSE @[i]]]
              /\ IF kvOk
                 THEN /\ redis' = [redis EXCEPT !.followup[q] =
                                     Entry(updated, RFQ_FOLLOWUP_TTL)]
                      /\ sweep' = [sweep EXCEPT !.todo = @ \ {q},
                                                !.sent = @ + sent,
                                                !.errors = @ + errors,
                                                !.rec = Some(rec),
                                                !.clean = clean]
                 ELSE /\ redis' = redis
                      /\ sweep' = [IdleSweep EXCEPT !.rec = Some(rec),
                                                    !.clean = clean]
      /\ UNCHANGED << now, cfg, nextKey, uploadEvt, calls, lastReturn, successes,
                      store, lastReq, attempts, sheetLog, lastRfq, chatVars >>

\* return { sent, errors }
SweepFinish ==
  /\ sweep.pc = "running"
  /\ sweep.todo = {}
  /\ sweep' = [IdleSweep EXCEPT
                 !.rec = sweep.rec,
                 !.clean = sweep.clean]
  /\ UNCHANGED << now, cfg, redis, nextKey, uploadEvt, calls, lastReturn,
                  successes, store, lastReq, attempts, sheetLog, lastRfq, mails, chatVars >>

FollowupTick ==
  /\ now < MaxFollowupDays * Day
  /\ now' = now + Day
  /\ UNCHANGED << cfg, redis, nextKey, uploadEvt, calls, lastReturn, successes,
                  store, lastReq, attempts, rfqVars, chatVars >>

StoredQuotes == { q \in QuoteIds : redis.rfqData[q] # Absent }

InitFollowup ==
  /\ now = 0
  /\ cfg = NoConfig
  /\ InitUploadVars
  /\ InitGuardVars
  /\ InitRfqVars
  /\ InitChatVars

\* One quote is requested, on the first day.
NextFollowup ==
  \/ /\ now < Day
     /\ generateQuoteNumber(1) \notin StoredQuotes
     /\ ProcessRfqCall(Rfq(Al, ItemsW1X2, Quay), 1, TRUE, 0)
  \/ \E q \in QuoteIds, mailOk \in BOOLEAN : SendRfqEmailCall(q, Mail1, mailOk)
  \/ SweepStart
  \/ \E q \in QuoteIds, mailOk \in [1..3 -> BOOLEAN], kvOk \in BOOLEAN :
       SweepRecord(q, mailOk, kvOk)
  \/ SweepFinish
  \/ FollowupTick

SpecFollowup == InitFollowup /\ [][NextFollowup]_vars

\* The record the last sweep step worked on, as it was read by the sweep:
\* its dates, and its flags before the step.
RecDates == Get(redis.followup[Get(sweep.rec).q].val).followUpDates
RecBefore ==
  [i \in 1..3 |-> Get(sweep.rec).wrote[i] /\ i \notin Get(sweep.rec).ok]
RecStoredFlags == Get(redis.followup[Get(sweep.rec).q].val).followUpSent

\* The record had status email_sent, a recipient and quote data (the sweep
\* worked on it), no reminder sent yet, and today is in [d1, d2).
RecFirstDue ==
  /\ IsSome(sweep.rec)
  /\ RecBefore = << FALSE, FALSE, FALSE >>
  /\ RecDates[1] <= RecDates[2] /\ RecDates[2] <= RecDates[3]
  /\ Get(sweep.rec).today >= RecDates[1]
  /\ Get(sweep.rec).today < RecDates[2]

(***************************************************************************)
(* C8, as stated.  Follow-up ordering: for a record with status            *)
(* email_sent, a recipient, quote data and no reminder sent, a sweep with  *)
(* d1 <= today < d2 sends exactly the d1 reminder and sets followUpSent to *)
(* [true, false, false].                                                   *)
(***************************************************************************)
C8_FollowupOrdering ==
  RecFirstDue =>
    /\ Get(sweep.rec).tried = {1}
    /\ Get(sweep.rec).ok = {1}
    /\ Get(sweep.rec).stored
    /\ RecStoredFlags = << TRUE, FALSE, FALSE >>

(***************************************************************************)
(* C8, amended.  Under the same conditions the sweep attempts exactly the  *)
(* d1 reminder and stops, whatever d3 is: it never attempts the d2 or d3   *)
(* reminder; the record it writes back has followUpSent                    *)
(* [true, false, false] when the d1 email was sent and all false when the  *)
(* send failed; and when the closing store write fails the stored flags    *)
(* stay all false.                                                         *)
(***************************************************************************)
C8_FollowupOrderingAmended ==
  RecFirstDue =>
    /\ Get(sweep.rec).tried = {1}
    /\ Get(sweep.rec).ok \subseteq {1}
    /\ Get(sweep.rec).wrote = << 1 \in Get(sweep.rec).ok, FALSE, FALSE >>
    /\ RecStoredFlags = IF Get(sweep.rec).stored THEN Get(sweep.rec).wrote
                        ELSE << FALSE, FALSE, FALSE >>

C8_Witness ==
  /\ RecFirstDue
  /\ Get(sweep.rec).ok = {1}
  /\ Get(sweep.rec).stored
  /\ RecStoredFlags = << TRUE, FALSE, FALSE >>
  /\ RecDates[3] > Get(sweep.rec).today

(***************************************************************************)
(* C9.  Follow-up reminders are strictly sequential: in every stored       *)
(* follow-up record followUpSent[i+1] implies followUpSent[i].             *)
(***************************************************************************)
C9_StrictlySequential ==
  \A q \in QuoteIds :
    redis.followup[q] # Absent =>
      LET followUpSent == Get(redis.followup[q].val).followUpSent
      IN  \A i \in 1..2 : followUpSent[i + 1] => followUpSent[i]

(***************************************************************************)
(* C10.  The follow-up trigger is idempotent: a sweep that follows, on the *)
(* same date, a sweep in which no send failed attempts no reminder and     *)
(* changes no flag; and over all sweeps each reminder (quote number,       *)
(* index) is emailed at most once.                                         *)
(***************************************************************************)
C10_Idempotent ==
  /\ (IsSome(sweep.rec) /\ Get(sweep.rec).afterClean) =>
       (Get(sweep.rec).tried = {} /\ Get(sweep.rec).wrote = RecBefore)
  /\ \A q \in QuoteIds : \A i \in 1..3 : mails[q][i] <= 1

(***************************************************************************)
(* A streaming turn: ChatController.streamResponse / uploadProducts and    *)
(* ChatService.handleStreamPrompt / handleProductUpload.  The parts of     *)
(* fullStream arrive one at a time; each is translated and emitted before  *)
(* the next is read.                                                       *)
(***************************************************************************)
MaxParts == 3        \* parts of fullStream read in one turn

Part(type, text, toolName) == [ type |-> type, text |-> text, toolName |-> toolName ]

\* The parts a turn can read: the six kinds the switch names and one it
\* does not (finish-step).
Parts ==
  { Part("text-delta", "a", ""), Part("reasoning-delta", "r", "") }
    \cup { Part(ty, "", n) : ty \in { "tool-call", "tool-result" },
                             n \in { "webSearch", "processRfq" } }
    \cup { Part("finish", "", ""), Part("error", "", ""), Part("finish-step", "", "") }

\* What fullStream can reject with, and the msg the catch derives from it.
StreamErrors ==
  { [ message |-> m, causeMessage |-> c ] :
      m \in { None, Some("boom") }, c \in { None, Some("gateway") } }

errMsg(err) ==
  IF IsSome(err.message) THEN Get(err.message)
  ELSE IF IsSome(err.causeMessage) THEN Get(err.causeMessage)
  ELSE "Stream error"

\* A plausible slip: the tool name is not looked at.
translateAnyTool(part) ==
  CASE part.type = "text-delta" -> << [ t |-> "text", v |-> part.text ] >>
    [] part.type = "tool-call" -> << [ t |-> "searching" ] >>
    [] part.type = "tool-result" -> << [ t |-> "search_done" ] >>
    [] part.type = "reasoning-delta" -> << [ t |-> "reasoning", v |-> part.text ] >>
    [] part.type = "finish" -> << [ t |-> "done" ] >>
    [] OTHER -> << >>

\* The switch of the for-await loop: the events emitted for one part.
translate(part) ==
  CASE part.type = "text-delta" -> << [ t |-> "text", v |-> part.text ] >>
    [] part.type = "tool-call" ->
         IF part.toolName = "webSearch" THEN << [ t |-> "searching" ] >> ELSE << >>
    [] part.type = "tool-result" ->
         IF part.toolName = "webSearch" THEN << [ t |-> "search_done" ] >> ELSE << >>
    [] part.type = "reasoning-delta" -> << [ t |-> "reasoning", v |-> part.text ] >>
    [] part.type = "finish" -> << [ t |-> "done" ] >>
    [] part.type = "error" -> << >>
    [] OTHER -> << >>

UserContentEvent(rows, res) ==
  [ t |-> "user_content",
    content |-> [ uploadKey |-> res.uploadKey, rowCount |-> Len(rows),
                  columns |-> rows[1] ] ]

Streaming(prelude) ==
  [ IdleStream EXCEPT !.pc = "streaming", !.prelude = prelude, !.out = prelude ]

\* POST chat/prompt/stream without a product file, or with one that fails
\* to parse or to stage (the catch around the prelude only logs).
StreamStartPlain ==
  /\ stream.pc # "streaming"
  /\ stream' = Streaming(<< >>)
  /\ UNCHANGED << now, cfg, redis, nextKey, uploadEvt, calls, lastReturn,
                  successes, store, lastReq, attempts, rfqVars, probe, slackVars, sheet1, wa, staging >>

\* POST chat/prompt/stream with a product-file attachment.
StreamStartAttachment(rows) ==
  LET res == GetOrCreateUploadKey(redis, rows, nextKey) IN
  /\ stream.pc # "streaming"
  /\ CanStage(rows)
  /\ StageAndEmit(rows)
  /\ stream' = Streaming(<< UploadEvent(rows, res), UserContentEvent(rows, res) >>)
  /\ UNCHANGED << now, cfg, calls, lastReturn, successes, store, lastReq,
                  attempts, rfqVars, probe, slackVars, sheet1, wa, staging >>

\* POST chat/products/upload.  parseProductFile throws on a file with no
\* rows; nothing catches it, nothing has been emitted and res.end() is
\* not reached.
StreamStartUpload(file) ==
  /\ stream.pc # "streaming"
  /\ IF IsSome(file)
     THEN LET rows == Get(file)
              res == GetOrCreateUploadKey(redis, rows, nextKey)
          IN  /\ CanStage(rows)
              /\ StageAndEmit(rows)
              /\ stream' = Streaming(<< UploadEvent(rows, res) >>)
     ELSE /\ stream' = [ IdleStream EXCEPT !.pc = "escaped" ]
          /\ UNCHANGED << redis, nextKey, uploadEvt >>
  /\ UNCHANGED << now, cfg, calls, lastReturn, successes, store, lastReq,
                  attempts, rfqVars, probe, slackVars, sheet1, wa, staging >>

\* One iteration of `for await (const part of fullStream)`.
StreamPart(part) ==
  /\ stream.pc = "streaming"
  /\ Len(stream.consumed) < MaxParts
  /\ stream' = [ stream EXCEPT !.consumed = Append(@, part),
                               !.out = @ \o translate(part) ]
  /\ UNCHANGED << now, cfg, redis, nextKey, uploadEvt, calls, lastReturn,
                  successes, store, lastReq, attempts, rfqVars, probe, slackVars, sheet1, wa, staging >>

\* fullStream is exhausted: the loop ends, handleStreamPrompt returns and
\* the controller ends the response.
StreamEnd ==
  /\ stream.pc = "streaming"
  /\ stream' = [ stream EXCEPT !.pc = "returned" ]
  /\ UNCHANGED << now, cfg, redis, nextKey, uploadEvt, calls, lastReturn,
                  successes, store, lastReq, attempts, rfqVars, probe, slackVars, sheet1, wa, staging >>

\* fullStream rejects: the catch emits one error event.
StreamThrow(err) ==
  /\ stream.pc = "streaming"
  /\ stream' = [ stream EXCEPT !.pc = "returned", !.threw = TRUE,
                               !.out = Append(@, [ t |-> "error", msg |-> errMsg(err) ]) ]
  /\ UNCHANGED << now, cfg, redis, nextKey, uploadEvt, calls, lastReturn,
                  successes, store, lastReq, attempts, rfqVars, probe, slackVars, sheet1, wa, staging >>

InitStream ==
  /\ now = 0
  /\ cfg = NoConfig
  /\ InitUploadVars
  /\ InitGuardVars
  /\ InitRfqVars
  /\ InitChatVars

NextStream ==
  \/ StreamStartPlain
  \/ StreamStartAttachment(TableA)
  \/ \E file \in { None, Some(TableA) } : StreamStartUpload(file)
  \/ \E part \in Parts : StreamPart(part)
  \/ StreamEnd
  \/ \E err \in StreamErrors : StreamThrow(err)

SpecStream == InitStream /\ [][NextStream]_vars

\* The mapping of C11, one model part to the event it stands for, if any.
C11_Map(part) ==
  IF part.type = "text-delta" THEN << [ t |-> "text", v |-> part.text ] >>
  ELSE IF part.type = "reasoning-delta" THEN << [ t |-> "reasoning", v |-> part.text ] >>
  ELSE IF part.type = "tool-call" /\ part.toolName = "webSearch"
       THEN << [ t |-> "searching" ] >>
  ELSE IF part.type = "tool-result" /\ part.toolName = "webSearch"
       THEN << [ t |-> "search_done" ] >>
  ELSE IF part.type = "finish" THEN << [ t |-> "done" ] >>
  ELSE << >>

RECURSIVE C11_Image(_)
C11_Image(parts) ==
  IF parts = << >> THEN << >>
  ELSE C11_Map(Head(parts)) \o C11_Image(Tail(parts))

\* The events of a turn that come after the upload prelude, without the
\* error event the catch adds when fullStream rejects.
C11_Translated ==
  LET rest == SubSeq(stream.out, Len(stream.prelude) + 1, Len(stream.out))
  IN  IF stream.threw THEN SubSeq(rest, 1, Len(rest) - 1) ELSE rest

(***************************************************************************)
(* C11.  Stream event translation preserves order: at every point of a     *)
(* turn the events emitted after the upload prelude are exactly the        *)
(* in-order image of the model parts read so far under text-delta -> text, *)
(* reasoning-delta -> reasoning, tool-call webSearch -> searching,         *)
(* tool-result webSearch -> search_done, finish -> done; parts of other    *)
(* tools produce no event; nothing is reordered, merged or dropped.        *)
(***************************************************************************)
C11_OrderPreserved ==
  /\ SubSeq(stream.out, 1, Len(stream.prelude)) = stream.prelude
  /\ C11_Translated = C11_Image(stream.consumed)

C11_Witness ==
  /\ stream.pc = "returned"
  /\ stream.prelude # << >>
  /\ stream.consumed = << Part("tool-call", "", "processRfq"),
                          Part("text-delta", "a", ""), Part("text-delta", "a", "") >>
  /\ Len(stream.out) = Len(stream.prelude) + 2

TerminalEvents ==
  { i \in 1..Len(stream.out) : stream.out[i].t \in { "done", "error" } }

(***************************************************************************)
(* C12.  Every streaming turn ends with exactly one terminal event and no  *)
(* silent failure: when the turn is over, exactly one done or error event  *)
(* was emitted and it is the last event; and a stream that reported an     *)
(* error part, or rejected, produced an error event.                       *)
(***************************************************************************)
C12_OneTerminalEvent ==
  stream.pc \in { "returned", "escaped" } =>
    /\ TerminalEvents = { Len(stream.out) }
    /\ Len(stream.out) > 0
    /\ (stream.threw \/ \E i \in 1..Len(stream.consumed) :
                           stream.consumed[i].type = "error")
         => stream.out[Len(stream.out)].t = "error"

(***************************************************************************)
(* ChatService.buildProductCatalog applied to parsed tables.               *)
(***************************************************************************)
MaxRows == 2         \* data rows of a table

HeaderCells ==
  { <<"S","-","k","_","U"," ">>, <<"I","D">>, <<"N","a","m","e">>,
    <<"S","K","U","s">> }
HeaderRows ==
  { << h >> : h \in HeaderCells } \cup { << h, g >> : h, g \in HeaderCells }

DataCells == { << >>, <<" ","w","1">>, <<"X","2">> }
\* The data rows under a header: one cell per column, or a row with no cell.
DataRows(headers) ==
  { << >> } \cup [ 1..Len(headers) -> DataCells ]

RECURSIVE TablesUnder(_, _)
TablesUnder(headers, n) ==
  IF n = 0 THEN { << headers >> }
  ELSE LET shorter == TablesUnder(headers, n - 1)
       IN  shorter \cup { Append(t, row) : t \in { u \in shorter : Len(u) = n },
                                           row \in DataRows(headers) }

CatalogTables == UNION { TablesUnder(headers, MaxRows) : headers \in HeaderRows }

\* One call per behaviour: the function keeps no state between calls.
BuildProductCatalogCall(rows) ==
  /\ probe = None
  /\ probe' = Some([ fn |-> "buildProductCatalog", rows |-> rows,
                     catalog |-> buildProductCatalog(rows) ])
  /\ UNCHANGED << now, cfg, redis, nextKey, uploadEvt, calls, lastReturn,
                  successes, store, lastReq, attempts, rfqVars, stream, slackVars, sheet1, wa, staging >>

InitCatalog ==
  /\ now = 0
  /\ cfg = NoConfig
  /\ InitUploadVars
  /\ InitGuardVars
  /\ InitRfqVars
  /\ InitChatVars

NextCatalog == \E rows \in CatalogTables : BuildProductCatalogCall(rows)

SpecCatalog == InitCatalog /\ [][NextCatalog]_vars

\* A header compared as C13 says: lower-cased, without spaces, underscores
\* and hyphens.
C13_Norm(h) == SelectChars(toLowerCase(h), {" ", "\t", "\n", "_", "-"})

\* The recognized SKU-synonym tokens the header row holds, by rank.
C13_Tokens(rows) ==
  { c \in 1..Len(SkuCandidates) :
      \E i \in 1..Len(rows[1]) : C13_Norm(rows[1][i]) = SkuCandidates[c] }

C13_HasSkuHeader(rows) == C13_Tokens(rows) # {}

\* The SKU column: the first column named by the first-ranked token.
C13_SkuColumn(rows) ==
  LET c == CHOOSE c \in C13_Tokens(rows) : \A d \in C13_Tokens(rows) : c <= d
      cols == { i \in 1..Len(rows[1]) : C13_Norm(rows[1][i]) = SkuCandidates[c] }
  IN  CHOOSE i \in cols : \A j \in cols : i <= j

\* The cells of the data rows in the SKU column (a missing cell is empty).
C13_SkuCells(rows) ==
  LET col == C13_SkuColumn(rows)
  IN  { IF col <= Len(rows[i]) THEN rows[i][col] ELSE << >> : i \in 2..Len(rows) }

C13_Keys(catalog) == { catalog[i].sku : i \in 1..Len(catalog) }

C13_IsCatalogCall == IsSome(probe) /\ Get(probe).fn = "buildProductCatalog"

(***************************************************************************)
(* C13, as stated.  Header-detection invariant: for a table whose header   *)
(* row contains a recognized SKU-synonym token buildProductCatalog returns *)
(* a non-null map whose keys are exactly the upper-cased SKU values of the *)
(* data rows; for a header row with none of them it returns null.          *)
(***************************************************************************)
C13_HeaderDetection ==
  C13_IsCatalogCall =>
    LET rows == Get(probe).rows
        catalog == Get(probe).catalog
    IN  IF C13_HasSkuHeader(rows)
        THEN /\ catalog # << >>
             /\ C13_Keys(catalog) = { toUpperCase(v) : v \in C13_SkuCells(rows) }
        ELSE catalog = << >>

(***************************************************************************)
(* C13, amended.  For a table whose header row contains a recognized       *)
(* SKU-synonym token and which has a data row with a non-blank SKU cell,   *)
(* buildProductCatalog returns a non-null map whose keys are exactly the   *)
(* trimmed, upper-cased non-blank SKU values of the data rows; it returns  *)
(* null when the header row contains no such token, when there is no data  *)
(* row, or when every data row's SKU cell is blank.  (null is the map with *)
(* no key: the key sets agree in every case.)                              *)
(***************************************************************************)
C13_HeaderDetectionAmended ==
  C13_IsCatalogCall =>
    LET rows == Get(probe).rows
        catalog == Get(probe).catalog
        values == IF C13_HasSkuHeader(rows)
                  THEN { trim(v) : v \in C13_SkuCells(rows) } \ { << >> }
                  ELSE {}
    IN  /\ C13_Keys(catalog) = { toUpperCase(v) : v \in values }
        /\ Len(catalog) = Cardinality(C13_Keys(catalog))

C13_Witness ==
  /\ C13_IsCatalogCall
  /\ Get(probe).rows = << << <<"I","D">>, <<"S","-","k","_","U"," ">> >>,
                          << <<"X","2">>, <<" ","w","1">> >>,
                          << <<" ","w","1">>, << >> >> >>
  /\ C13_Keys(Get(probe).catalog) = { <<"W","1">> }

(***************************************************************************)
(* Slack events: ChatController.handleSlackEvents, SlackService            *)
(* .verifyRequest and ChatService.handleSlackEvent.  handleSlackEvent is   *)
(* started without being awaited, so deliveries overlap at its awaits.     *)
(***************************************************************************)
MaxSlackTicks == 3   \* 150-second clock steps in the Slack specification

HISTORY_LIMIT == 20
HISTORY_TTL_SECONDS == 60 * 60 * 24 * 7
SLACK_EVENT_DEDUP_TTL == 300

\* parseInt(s, 10): the signed digits after leading whitespace; None is NaN.
RECURSIVE digitPrefix(_)
digitPrefix(s) ==
  IF s = << >> \/ ~IsDigit(Head(s)) THEN << >>
  ELSE << Head(s) >> \o digitPrefix(Tail(s))

parseInt(s) ==
  LET t == trimStart(s)
      signed == t # << >> /\ Head(t) \in { "-", "+" }
      d == digitPrefix(IF signed THEN Tail(t) ELSE t)
  IN  IF d = << >> THEN None
      ELSE IF signed /\ Head(t) = "-" THEN Some(0 - DigitsValue(d))
      ELSE Some(DigitsValue(d))

\* createHmac('sha256', secret).update(baseString).digest('hex'), taken to
\* be collision free: the digest stands for the pair it was made from.
hmacSha256(secret, baseString) == << "hmac", secret, baseString >>

\* `v0:${timestamp}:${rawBody}`; an absent header prints as "undefined".
baseStringOf(timestamp, rawBody) ==
  << "v0", IF IsSome(timestamp) THEN Get(timestamp) ELSE "undefined", rawBody >>

\* SlackService.verifyRequest.  A comparison with NaN is false; Buffer.from
\* of an absent signature and timingSafeEqual on unequal lengths throw, and
\* the catch returns false.
verifyRequest(signature, timestamp, rawBody) ==
  IF ~Truthy(cfg.slackSigningSecret) THEN TRUE
  ELSE LET fiveMinutesAgo == now - 300
           ts == IF IsSome(timestamp) THEN parseInt(Get(timestamp)) ELSE None
           expected == << "v0=", hmacSha256(Get(cfg.slackSigningSecret),
                                            baseStringOf(timestamp, rawBody)) >>
       IN  IF IsSome(ts) /\ Get(ts) < fiveMinutesAgo THEN FALSE
           ELSE IsSome(signature) /\ Get(signature) = expected

\* (req as any).rawBody.  Neither bootstrap passes { rawBody: true } to
\* NestFactory.create nor gives express.json a verify hook, so the field is
\* never set.
rawBodyOf(body) == None

Mention == "<@U1>"
\* (event.text ?? '').replace(/<@[A-Z0-9]+>/g, '').trim(); a mention is one
\* element of the text.
userTextOf(event) == trim(SelectChars(event.text, { Mention }))

\* ChatMessage: content is the number the message was created with.
ChatMessage(role, n) == [ role |-> role, content |-> n ]

\* A plausible slip: the history is passed on whole.
sliceWhole(seq, start) == seq

\* Array.prototype.slice(start) with a negative or non-negative start.
slice(seq, start) ==
  LET from == IF start < 0 THEN Max(Len(seq) + start, 0)
              ELSE IF start > Len(seq) THEN Len(seq) ELSE start
  IN  SubSeq(seq, from + 1, Len(seq))

\* Request bodies of POST chat/slack/events.
SlackEvent(type, bot, text) == [ type |-> type, bot |-> bot, text |-> text ]
SlackBody(type, eventId, event) == [ type |-> type, eventId |-> eventId, event |-> event ]

Hi == << Mention, " ", "h", "i" >>
UrlVerification == SlackBody("url_verification", None, None)
MentionBody(eventId) ==
  SlackBody("event_callback", eventId, Some(SlackEvent("app_mention", FALSE, Hi)))
SlackBodies ==
  { UrlVerification,
    SlackBody("event_callback", Some(1), None),
    SlackBody("event_callback", Some(1), Some(SlackEvent("message", TRUE, Hi))),
    SlackBody("event_callback", Some(1), Some(SlackEvent("reaction_added", FALSE, Hi))),
    SlackBody("event_callback", Some(1), Some(SlackEvent("message", FALSE, << Mention >>))),
    SlackBody("block_actions", None, None) }
    \cup { MentionBody(e) : e \in { None } \cup { Some(i) : i \in EventIds } }

\* handleSlackEvent up to the answer of `await redisService.get(dedupKey)`:
\* the position the delivery is left in.
SlackDedupGet(body) ==
  IF ~IsSome(body.event) THEN "ignored"
  ELSE IF Get(body.event).bot THEN "ignored"
  ELSE IF Get(body.event).type \notin { "app_mention", "message" } THEN "ignored"
  ELSE IF ~IsSome(body.eventId)
       THEN IF userTextOf(Get(body.event)) = << >> THEN "ignored" ELSE "reply"
  ELSE IF IsSome(redisGet(redis.slackEvent[Get(body.eventId)])) THEN "dropped"
  ELSE "mark"

\* ChatController.handleSlackEvents for one request, with the start of
\* handleSlackEvent it dispatches.
SlackReceive(d, signature, timestamp, body) ==
  LET rawBody == rawBodyOf(body)
      isValid == IF IsSome(rawBody)
                 THEN verifyRequest(signature, timestamp, Get(rawBody))
                 ELSE TRUE
      outcome == IF ~isValid THEN "unauthorized"
                 ELSE IF body.type = "url_verification" THEN "challenge"
                 ELSE IF body.type = "event_callback" THEN "event"
                 ELSE "ok"
  IN  /\ slack[d].pc = "idle"
      /\ probe' = Some([ fn |-> "handleSlackEvents", signature |-> signature,
                         timestamp |-> timestamp, body |-> body, at |-> now,
                         outcome |-> outcome ])
      /\ slack' = IF outcome = "event"
                  THEN [ slack EXCEPT ![d] =
                           [ pc |-> SlackDedupGet(body), eventId |-> body.eventId,
                             userText |-> IF IsSome(body.event)
                                          THEN userTextOf(Get(body.event))
                                          ELSE << >>,
                             dup |-> FALSE ] ]
                  ELSE slack
      /\ UNCHANGED << now, cfg, redis, nextKey, uploadEvt, calls, lastReturn,
                      successes, store, lastReq, attempts, rfqVars, stream,
                      slackDup, nextMsg, sheet1, wa, staging >>

\* `await redisService.set(dedupKey, '1', SLACK_EVENT_DEDUP_TTL)` and the
\* userText check after it.
SlackMark(d) ==
  LET e == Get(slack[d].eventId) IN
  /\ slack[d].pc = "mark"
  /\ redis' = [ redis EXCEPT !.slackEvent[e] = Entry("1", SLACK_EVENT_DEDUP_TTL) ]
  /\ slack' = [ slack EXCEPT ![d].pc = IF slack[d].userText = << >>
                                       THEN "ignored" ELSE "reply",
                             ![d].dup = IsSome(redisGet(redis.slackEvent[e])) ]
  /\ UNCHANGED << now, cfg, nextKey, uploadEvt, calls, lastReturn, successes,
                  store, lastReq, attempts, rfqVars, stream, probe, slackDup,
                  nextMsg, sheet1, wa, staging >>

\* The rest of handleSlackEvent: history read, model call, history write
\* and reply.  aiResponse is what the model returns.
SlackReply(d, aiResponse) ==
  LET history == OrElse(redisGet(redis.history["slack"]), << >>)
      aiMessages == slice(history, 0 - HISTORY_LIMIT)
                      \o << ChatMessage("user", nextMsg + 1) >>
  IN  /\ slack[d].pc = "reply"
      /\ nextMsg < MaxMessages
      /\ probe' = Some([ fn |-> "generateResponseWithHistory", channel |-> "slack",
                         history |-> history, messages |-> aiMessages ])
      /\ IF aiResponse
         THEN redis' = [ redis EXCEPT !.history["slack"] =
                           Entry(aiMessages \o << ChatMessage("assistant", nextMsg + 2) >>,
                                 HISTORY_TTL_SECONDS) ]
         ELSE redis' = redis
      /\ nextMsg' = nextMsg + 2
      /\ slack' = [ slack EXCEPT ![d].pc = "done" ]
      /\ slackDup' = IF IsSome(slack[d].eventId)
                     THEN [ slackDup EXCEPT ![Get(slack[d].eventId)] = @ \/ slack[d].dup ]
                     ELSE slackDup
      /\ UNCHANGED << now, cfg, nextKey, uploadEvt, calls, lastReturn, successes,
                      store, lastReq, attempts, rfqVars, stream, sheet1, wa, staging >>

SlackTick ==
  /\ now < MaxSlackTicks * 150
  /\ now' = now + 150
  /\ UNCHANGED << cfg, redis, nextKey, uploadEvt, calls, lastReturn, successes,
                  store, lastReq, attempts, rfqVars, chatVars >>

Secret1 == <<"s","1">>
SignatureOf(secret, timestamp, body) ==
  Some(<< "v0=", hmacSha256(secret, baseStringOf(timestamp, body)) >>)
\* Signatures a request can carry: none, one made with another secret and,
\* when it names a timestamp, Slack's own for that timestamp and body.
SlackSignatures(timestamp, body) ==
  { None, SignatureOf(<<"x">>, timestamp, body) }
    \cup (IF IsSome(timestamp) THEN { SignatureOf(Secret1, timestamp, body) } ELSE {})
SlackTimestamps == { None, Some(<<"0">>), Some(<<"1","5","0">>) }

InitSlack ==
  /\ now = 0
  /\ cfg \in { [NoConfig EXCEPT !.slackSigningSecret = k] : k \in { None, Some(Secret1) } }
  /\ InitUploadVars
  /\ InitGuardVars
  /\ InitRfqVars
  /\ InitChatVars

\* Deliveries of events, Slack's retries among them, handled concurrently.
NextSlack ==
  \/ \E d \in Deliveries, e \in { None } \cup { Some(i) : i \in EventIds } :
       SlackReceive(d, None, None, MentionBody(e))
  \/ \E d \in Deliveries : SlackMark(d)
  \/ \E d \in Deliveries, aiResponse \in BOOLEAN : SlackReply(d, aiResponse)
  \/ SlackTick

SpecSlack == InitSlack /\ [][NextSlack]_vars

\* Requests of every kind, signed and unsigned, one at a time.
NextSlackAuth ==
  \/ \E body \in SlackBodies, timestamp \in SlackTimestamps :
       \E signature \in SlackSignatures(timestamp, body) :
         SlackReceive(1, signature, timestamp, body)
  \/ SlackTick

SpecSlackAuth == InitSlack /\ [][NextSlackAuth]_vars

(***************************************************************************)
(* C14.  Slack event deduplication: for any Slack event id, among the      *)
(* deliveries of that event within the marker's 5-minute lifetime, also    *)
(* when they are handled concurrently, at most one goes past the dedup     *)
(* check to model generation, history write and reply: no delivery goes on *)
(* while the marker another delivery set is alive.                         *)
(***************************************************************************)
C14_SlackDedup == \A e \in EventIds : ~slackDup[e]

\* The request carries Slack's signature for its timestamp and body, made
\* with the configured secret, and a timestamp at most 300 seconds old.
C15_Authentic(req) ==
  /\ IsSome(req.signature) /\ IsSome(req.timestamp)
  /\ Get(req.signature) =
       << "v0=", << "hmac", Get(cfg.slackSigningSecret),
                    << "v0", Get(req.timestamp), req.body >> >> >>
  /\ IsSome(parseInt(Get(req.timestamp)))
  /\ Get(parseInt(Get(req.timestamp))) >= req.at - 300

(***************************************************************************)
(* C15.  Slack request authenticity: when SLACK_SIGNING_SECRET is          *)
(* configured, a POST to the Slack events endpoint reaches the challenge   *)
(* echo or handleSlackEvent only if its signature is                       *)
(* v0=HMAC-SHA256(secret, 'v0:<timestamp>:<raw body>') and its timestamp   *)
(* is not older than 300 seconds; every other request is rejected as       *)
(* unauthorized.                                                           *)
(***************************************************************************)
C15_SlackAuthenticity ==
  (IsSome(probe) /\ Get(probe).fn = "handleSlackEvents"
     /\ Truthy(cfg.slackSigningSecret)) =>
    IF C15_Authentic(Get(probe))
    THEN Get(probe).outcome # "unauthorized"
    ELSE Get(probe).outcome = "unauthorized"

(***************************************************************************)
(* The tools' execute functions and their collaborators.  An outcome says  *)
(* whether execute returned or an exception left it, whether the returned  *)
(* value reports a failure (success: false, or an error field), the        *)
(* message it carries, and the collaborator call that failed, if one did.  *)
(***************************************************************************)
Returned(failure, message, failed) ==
  [ threw |-> FALSE, failure |-> failure, message |-> message, failed |-> failed ]
Escaped(failed) ==
  [ threw |-> TRUE, failure |-> FALSE, message |-> None, failed |-> Some(failed) ]

IMAGE_TYPES ==
  { "image/jpeg", "image/jpg", "image/png", "image/gif", "image/webp",
    "image/bmp", "image/svg+xml" }
DOCUMENT_TYPES ==
  { "application/pdf", "text/plain", "text/csv", "text/markdown", "text/html" }

\* execute of the media tool.  contentType is the type named by the
\* Content-Type header and urlMime the one mimeFromUrl finds (None: none);
\* fetchOk, bodyOk and modelOk = FALSE are fetch, the body read
\* (response.text or response.arrayBuffer) and generateText rejecting.
MediaExecute(fetchOk, responseOk, contentType, urlMime, bodyOk, modelOk) ==
  LET mimeType == OrElse(contentType, OrElse(urlMime, "application/octet-stream"))
  IN  IF ~fetchOk
      THEN Returned(TRUE, Some("Could not fetch URL"), Some("fetch"))
      ELSE IF ~responseOk
      THEN Returned(TRUE, Some("URL responded with an error status"), None)
      ELSE IF mimeType \in { "text/plain", "text/csv", "text/markdown" }
      THEN (IF bodyOk THEN Returned(FALSE, None, None) ELSE Escaped("body"))
      ELSE IF mimeType \notin IMAGE_TYPES \cup DOCUMENT_TYPES
      THEN Returned(TRUE, Some("Unsupported file type"), None)
      ELSE IF ~bodyOk THEN Escaped("body")
      ELSE IF ~modelOk
      THEN Returned(TRUE, Some("Model could not analyze this file"), Some("model"))
      ELSE Returned(FALSE, None, None)

\* execute of getProductCatalog; kvOk = FALSE is redis.get rejecting.
GetProductCatalogExecute(r, kvOk) ==
  IF ~kvOk
  THEN Returned(TRUE, Some("Failed to retrieve product catalog"), Some("store"))
  ELSE IF ~IsSome(redisGet(r.catalog)) \/ Get(redisGet(r.catalog)) = << >>
  THEN Returned(TRUE, Some("No product catalog found."), None)
  ELSE Returned(FALSE, None, None)

SheetsFailures == 0..2

\* execute of the uploadToSheet version that writes the staged rows to
\* Sheet1: the outcome, the store and Sheet1 after the call.  kvGetOk and
\* kvDelOk = FALSE are redis.get and redis.delete rejecting; sheetsFail
\* names the spreadsheet call that rejects: 1 clear, 2 batchAppend, 0 none.
UploadToSheetWrite(r, sheet, uploadKey, secretCode, kvGetOk, sheetsFail, kvDelOk) ==
  LET stored == redisGet(r.upload[uploadKey])
      data == IF IsSome(stored) THEN Some(TableList[Get(stored)]) ELSE None
      failedWrite == Some("Failed to upload to Google Sheets")
  IN  IF ~IsSome(cfg.uploadSecret)
      THEN [ outcome |-> Returned(TRUE, Some(MsgNotConfigured), None),
             redis |-> r, sheet1 |-> sheet ]
      ELSE IF ~codeMatchesTrimOnly(secretCode, Get(cfg.uploadSecret))
      THEN [ outcome |-> Returned(TRUE, Some(MsgInvalidCode), None),
             redis |-> r, sheet1 |-> sheet ]
      ELSE IF ~kvGetOk
      THEN [ outcome |-> Escaped("store"), redis |-> r, sheet1 |-> sheet ]
      ELSE IF ~IsSome(data) \/ Get(data) = << >>
      THEN [ outcome |-> Returned(TRUE, Some(MsgExpired), None),
             redis |-> r, sheet1 |-> sheet ]
      ELSE IF ~Truthy(cfg.sheetId)
      THEN [ outcome |-> Returned(TRUE, Some("Google Sheet ID is not configured on the server."), None),
             redis |-> r, sheet1 |-> sheet ]
      ELSE IF sheetsFail = 1
      THEN [ outcome |-> Returned(TRUE, failedWrite, Some("sheets")),
             redis |-> r, sheet1 |-> sheet ]
      ELSE IF sheetsFail = 2
      THEN [ outcome |-> Returned(TRUE, failedWrite, Some("sheets")),
             redis |-> r, sheet1 |-> << >> ]
      ELSE IF ~kvDelOk
      THEN [ outcome |-> Returned(TRUE, failedWrite, Some("store")),
             redis |-> r, sheet1 |-> Get(data) ]
      ELSE [ outcome |-> Returned(FALSE, Some("Successfully uploaded rows to Google Sheets."), None),
             redis |-> [r EXCEPT !.upload[uploadKey] = Absent],
             sheet1 |-> Get(data) ]

\* One execute is observed in a behaviour, after the uploads and processRfq
\* calls that set the store up for it.
ToolProbe(tool, outcome) ==
  Some([ fn |-> "execute", tool |-> tool, outcome |-> outcome ])

MediaCall(fetchOk, responseOk, contentType, urlMime, bodyOk, modelOk) ==
  /\ probe = None
  /\ probe' = ToolProbe("media", MediaExecute(fetchOk, responseOk, contentType,
                                               urlMime, bodyOk, modelOk))
  /\ UNCHANGED << now, cfg, redis, nextKey, uploadEvt, calls, lastReturn,
                  successes, store, lastReq, attempts, rfqVars, stream,
                  slackVars, sheet1, wa, staging >>

GetProductCatalogCall(kvOk) ==
  /\ probe = None
  /\ probe' = ToolProbe("getProductCatalog", GetProductCatalogExecute(redis, kvOk))
  /\ UNCHANGED << now, cfg, redis, nextKey, uploadEvt, calls, lastReturn,
                  successes, store, lastReq, attempts, rfqVars, stream,
                  slackVars, sheet1, wa, staging >>

UploadToSheetWriteCall(uploadKey, secretCode, kvGetOk, sheetsFail, kvDelOk) ==
  LET res == UploadToSheetWrite(redis, sheet1, uploadKey, secretCode, kvGetOk,
                                sheetsFail, kvDelOk)
  IN  /\ probe = None
      /\ redis' = res.redis
      /\ sheet1' = res.sheet1
      /\ probe' = ToolProbe("uploadToSheet", res.outcome)
      /\ UNCHANGED << now, cfg, nextKey, uploadEvt, calls, lastReturn,
                      successes, store, lastReq, attempts, rfqVars, stream,
                      slackVars, wa, staging >>

\* sendRfqEmail as the model calls it: SendRfqEmail and what it returned.
SendRfqEmailExecute(quoteNumber, recipientEmail, mailOk) ==
  LET res == SendRfqEmail(redis, quoteNumber, recipientEmail, mailOk)
  IN  /\ probe = None
      /\ redis' = res.redis
      /\ sweep' = [sweep EXCEPT !.clean = None]
      /\ probe' = Some([ fn |-> "execute", tool |-> "sendRfqEmail",
                         quoteNumber |-> quoteNumber, mailed |-> res.mailed,
                         recipientEmail |-> recipientEmail, mailOk |-> mailOk,
                         before |-> [ followup |-> redis.followup,
                                      rfqData |-> redis.rfqData ],
                         after |-> [ followup |-> res.redis.followup,
                                     rfqData |-> res.redis.rfqData ],
                         outcome |-> Returned(~res.success, Some(res.message),
                                              IF res.message = MsgSendFailed
                                              THEN Some("mailer") ELSE None) ])
      /\ UNCHANGED << now, cfg, nextKey, uploadEvt, calls, lastReturn,
                      successes, store, lastReq, attempts, sheetLog, lastRfq,
                      mails, stream, slackVars, sheet1, wa, staging >>

ContentTypes == { None, Some("text/csv"), Some("application/pdf"), Some("application/zip") }
UrlMimes == { None, Some("image/png") }

InitTools ==
  /\ now = 0
  /\ cfg = [NoConfig EXCEPT !.sheetId = Some(Sheet1), !.uploadSecret = Some(ABC123)]
  /\ InitUploadVars
  /\ InitGuardVars
  /\ InitRfqVars
  /\ InitChatVars

NextTools ==
  \/ \E rows \in { TableA, TableB } : HandleProductUpload(rows)
  \/ \E sheetOk \in BOOLEAN, kvFail \in KvFailures :
       ProcessRfqCall(Rfq(Al, ItemsW1X2, Quay), 1, sheetOk, kvFail)
  \/ \E mailOk \in BOOLEAN : SendRfqEmailExecute(generateQuoteNumber(1), Mail1, mailOk)
  \/ \E kvOk \in BOOLEAN : GetProductCatalogCall(kvOk)
  \/ \E k \in UploadKeys, code \in { ABC123, abc123 }, kvGetOk \in BOOLEAN,
        sheetsFail \in SheetsFailures, kvDelOk \in BOOLEAN :
       UploadToSheetWriteCall(k, code, kvGetOk, sheetsFail, kvDelOk)
  \/ \E fetchOk \in BOOLEAN, responseOk \in BOOLEAN, contentType \in ContentTypes,
        urlMime \in UrlMimes, bodyOk \in BOOLEAN, modelOk \in BOOLEAN :
       MediaCall(fetchOk, responseOk, contentType, urlMime, bodyOk, modelOk)

SpecTools == InitTools /\ [][NextTools]_vars

(***************************************************************************)
(* C16.  Tool failures are data, never exceptions: no exception leaves a   *)
(* tool's execute, and when a collaborator call inside execute failed, the *)
(* returned value reports a failure and carries a message.                 *)
(***************************************************************************)
C16_ToolFailuresAreData ==
  /\ IsSome(probe) /\ Get(probe).fn = "execute" =>
       /\ ~Get(probe).outcome.threw
       /\ IsSome(Get(probe).outcome.failed) =>
            Get(probe).outcome.failure /\ IsSome(Get(probe).outcome.message)
  /\ IsSome(lastRfq) /\ ~Get(lastRfq).result.success =>
       Get(lastRfq).result.message # ""

(***************************************************************************)
(* Conversation history on the three channels.  Every model call is        *)
(* observed in probe with the history it was built from and the message    *)
(* list it was given.                                                      *)
(***************************************************************************)
ModelCall(fn, channel, history, messages) ==
  Some([ fn |-> fn, channel |-> channel, history |-> history, messages |-> messages ])

\* The number of the next message of a conversation.
NextContent(history) ==
  IF history = << >> THEN 1 ELSE history[Len(history)].content + 1

\* ChatService.handleIncomingMessage (WhatsApp) for one webhook delivery.
\* aiOk = FALSE is generateResponseWithHistory rejecting: the handler then
\* ends before the history write.
HandleIncomingMessage(type, aiOk) ==
  LET history == OrElse(redisGet(redis.history["wa"]), << >>)
      userText == NextContent(history)
      aiMessages == slice(history, 0 - HISTORY_LIMIT)
                      \o << ChatMessage("user", userText) >>
  IN  IF type # "text"
      THEN UNCHANGED vars
      ELSE /\ userText < MaxMessages
           /\ probe' = ModelCall("generateResponseWithHistory", "wa", history, aiMessages)
           /\ redis' = IF aiOk
                       THEN [ redis EXCEPT !.history["wa"] =
                                Entry(aiMessages \o << ChatMessage("assistant", userText + 1) >>,
                                      HISTORY_TTL_SECONDS) ]
                       ELSE redis
           /\ UNCHANGED << now, cfg, nextKey, uploadEvt, calls, lastReturn,
                           successes, store, lastReq, attempts, rfqVars, stream,
                           slackVars, sheet1, wa, staging >>

\* A history a web client sends along: n messages, user and assistant in
\* turn.
ClientHistory(n) ==
  [ i \in 1..n |-> ChatMessage(IF i % 2 = 1 THEN "user" ELSE "assistant", i) ]
ClientHistories == { ClientHistory(n) : n \in { 0, 1, HISTORY_LIMIT, HISTORY_LIMIT + 1, MaxMessages } }

\* handleStreamPrompt without an attachment, up to the call of
\* streamResponseWithHistory; history = None is a request without one.
StreamStartHistory(history) ==
  LET messages == slice(OrElse(history, << >>), 0 - HISTORY_LIMIT)
                    \o << ChatMessage("user", NextContent(OrElse(history, << >>))) >>
  IN  /\ stream.pc # "streaming"
      /\ stream' = Streaming(<< >>)
      /\ probe' = ModelCall("streamResponseWithHistory", "web",
                            OrElse(history, << >>), messages)
      /\ UNCHANGED << now, cfg, redis, nextKey, uploadEvt, calls, lastReturn,
                      successes, store, lastReq, attempts, rfqVars, slackVars,
                      sheet1, wa, staging >>

\* handleSlackEvent has returned: the next delivery can be taken.
SlackReturn(d) ==
  /\ slack[d].pc \in { "done", "ignored", "dropped" }
  /\ slack' = [ slack EXCEPT ![d] = IdleDelivery ]
  /\ UNCHANGED << now, cfg, redis, nextKey, uploadEvt, calls, lastReturn,
                  successes, store, lastReq, attempts, rfqVars, stream, probe,
                  slackDup, nextMsg, sheet1, wa, staging >>

InitHistory ==
  /\ now = 0
  /\ cfg = NoConfig
  /\ InitUploadVars
  /\ InitGuardVars
  /\ InitRfqVars
  /\ InitChatVars

\* Turns of the three channels, in any order; Slack deliveries one at a time.
NextHistory ==
  \/ \E type \in { "text", "image" }, aiOk \in BOOLEAN :
       HandleIncomingMessage(type, aiOk)
  \/ SlackReceive(1, None, None, MentionBody(None))
  \/ SlackReply(1, TRUE)
  \/ SlackReturn(1)
  \/ \E history \in { None } \cup { Some(h) : h \in ClientHistories } :
       StreamStartHistory(history)
  \/ StreamEnd

SpecHistory == InitHistory /\ [][NextHistory]_vars

(***************************************************************************)
(* C17.  History bound on model input: on every turn of every channel the  *)
(* message list passed to the model is the last min(20, n) entries of the  *)
(* n-entry history, in their order, followed by one new user message; the  *)
(* model never receives more than 21 messages.                             *)
(***************************************************************************)
C17_IsModelCall ==
  /\ IsSome(probe)
  /\ Get(probe).fn \in { "generateResponseWithHistory", "streamResponseWithHistory" }

C17_HistoryBound ==
  C17_IsModelCall =>
    LET history == Get(probe).history
        messages == Get(probe).messages
        n == Len(history)
        k == IF n < 20 THEN n ELSE 20
    IN  /\ Len(messages) = k + 1
        /\ \A i \in 1..k : messages[i] = history[n - k + i]
        /\ messages[k + 1].role = "user"
        /\ messages[k + 1] \notin { history[i] : i \in 1..n }
        /\ Len(messages) <= 21

\* A turn on a stored history of more than 20 entries.
C17_Witness ==
  /\ C17_IsModelCall
  /\ Get(probe).channel \in { "wa", "slack" }
  /\ Len(Get(probe).history) > 20
  /\ Len(Get(probe).messages) = 21

(***************************************************************************)
(* C18.  RfqQuote and RfqFollowup are created as a pair: after a           *)
(* processRfq call, rfq:data:<q> exists iff rfq:followup:<q> exists for    *)
(* the quote number q the call generated, and after a call that returned   *)
(* success=false neither exists.                                           *)
(***************************************************************************)
C18_AtomicPair ==
  IsSome(lastRfq) =>
    LET q == generateQuoteNumber(1)
        hasData == IsSome(redisGet(redis.rfqData[q]))
        hasFollowup == IsSome(redisGet(redis.followup[q]))
    IN  /\ hasData <=> hasFollowup
        /\ ~Get(lastRfq).result.success => ~hasData /\ ~hasFollowup

(***************************************************************************)
(* C19.  RFQ totals are consistent: after a successful processRfq call,    *)
(* in its result and in the quote it stored, each lineTotal is qty times   *)
(* unitPrice when there is a unit price and null otherwise; hasAllPrices   *)
(* holds iff every line has a unit price, iff missingPriceSkus is empty,   *)
(* iff total is not "TBD"; and with all prices known total is the sum of   *)
(* the line totals.                                                        *)
(***************************************************************************)
RECURSIVE C19_Sum(_, _)
C19_Sum(lineItems, i) ==
  IF i = 0 THEN 0
  ELSE C19_Sum(lineItems, i - 1) + lineItems[i].qty * Get(lineItems[i].unitPrice)

C19_Succeeded == IsSome(lastRfq) /\ Get(lastRfq).result.success

C19_TotalsConsistent ==
  C19_Succeeded =>
    LET result == Get(lastRfq).result
        quote == redisGet(redis.rfqData[Get(result.quoteNumber)])
        lineItems == result.lineItems
        allPriced == \A i \in 1..Len(lineItems) : IsSome(lineItems[i].unitPrice)
    IN  /\ IsSome(quote)
        /\ Get(quote).lineItems = lineItems
        /\ Get(quote).total = result.total
        /\ \A i \in 1..Len(lineItems) :
             lineItems[i].lineTotal =
               IF IsSome(lineItems[i].unitPrice)
               THEN Some(lineItems[i].qty * Get(lineItems[i].unitPrice))
               ELSE None
        /\ Get(quote).hasAllPrices <=> allPriced
        /\ allPriced <=> (result.missingPriceSkus = << >>)
        /\ allPriced <=> (result.total # TBD)
        /\ allPriced => result.total = fmt(C19_Sum(lineItems, Len(lineItems)))

\* A quote of three priced lines, two of them priced from the catalog.
C19_Witness ==
  /\ C19_Succeeded
  /\ Get(lastRfq).result.catalogUsed
  /\ Len(Get(lastRfq).result.lineItems) = 3
  /\ Get(lastRfq).result.total \notin { TBD, fmt(0) }

(***************************************************************************)
(* C20.  The product catalog is overwritten wholesale by uploads: after    *)
(* every upload whose rows yield a catalog, a re-upload flagged            *)
(* alreadyExists=true included, the stored product-catalog is              *)
(* buildProductCatalog of that upload's rows (so it is always that of the  *)
(* most recent such upload and holds no SKU of an earlier one only).       *)
(***************************************************************************)
C20_Uploaded(h) == uploadEvt'[h] # uploadEvt[h]
C20_StoredCatalog == redisGet(redis.catalog)

C20_OverwrittenWholesale ==
  [][ \A h \in Hashes :
        C20_Uploaded(h) /\ buildProductCatalog(TableList[h]) # << >>
          => C20_StoredCatalog' = Some(buildProductCatalog(TableList[h]))
    ]_vars

\* What the code does instead: an upload that opens a new session
\* (alreadyExists=false) and whose rows yield a catalog replaces the stored
\* catalog by its own; a re-upload flagged alreadyExists=true while a
\* catalog is stored, and an upload whose rows yield no catalog, leave the
\* stored catalog as it is.
C20_OverwrittenByNewSessions ==
  [][ \A h \in Hashes :
        C20_Uploaded(h) =>
          LET built == buildProductCatalog(TableList[h]) IN
          /\ (built # << >> /\ ~Get(uploadEvt'[h]).alreadyExists)
               => C20_StoredCatalog' = Some(built)
          /\ (built = << >>
                \/ (Get(uploadEvt'[h]).alreadyExists /\ IsSome(C20_StoredCatalog)))
               => C20_StoredCatalog' = C20_StoredCatalog
    ]_vars

(***************************************************************************)
(* Quote emails and reminders: one quote is requested, with or without a   *)
(* contact email; sendRfqEmail is called for it or for a quote number      *)
(* nothing is stored under; sweeps run on the days that follow.            *)
(***************************************************************************)
RfqWithEmail(contactEmail) ==
  [ Rfq(Al, ItemsW1X2, Quay) EXCEPT !.contactEmail = contactEmail ]

NextQuoteMail ==
  \/ \E contactEmail \in { None, Some(Mail1) } :
       /\ now < Day
       /\ generateQuoteNumber(1) \notin StoredQuotes
       /\ ProcessRfqCall(RfqWithEmail(contactEmail), 1, TRUE, 0)
  \/ \E q \in QuoteIds, mailOk \in BOOLEAN : SendRfqEmailExecute(q, Mail1, mailOk)
  \/ SweepStart
  \/ \E q \in QuoteIds, mailOk \in [1..3 -> BOOLEAN], kvOk \in BOOLEAN :
       SweepRecord(q, mailOk, kvOk)
  \/ SweepFinish
  \/ FollowupTick

SpecQuoteMail == InitFollowup /\ [][NextQuoteMail]_vars

(***************************************************************************)
(* C21.  No follow-up reminder without a sent quote email: a sweep sends   *)
(* a reminder for quote q only if an earlier sendRfqEmail call for q       *)
(* succeeded (the record has status email_sent and a recipient) and the    *)
(* quote data exists; a sweep neither emails nor modifies a record with    *)
(* status pending; sendRfqEmail for a quote number with no stored quote    *)
(* sends no email and changes no state.                                    *)
(***************************************************************************)
C21_Status(q) ==
  IF IsSome(redisGet(redis.followup[q]))
  THEN Get(redisGet(redis.followup[q])).status ELSE "none"

C21_SweepStep ==
  /\ sweep.pc = "running"
  /\ sweep'.todo # sweep.todo \/ sweep'.pc # sweep.pc

C21_QuoteEmailSentFor(q) ==
  /\ IsSome(probe)
  /\ Get(probe).fn = "execute" /\ Get(probe).tool = "sendRfqEmail"
  /\ Get(probe).quoteNumber = q
  /\ Get(probe).mailed /\ ~Get(probe).outcome.failure

C21_NoReminderWithoutQuoteEmail ==
  [][ /\ \A q \in QuoteIds :
           mails'[q] # mails[q] =>
             /\ C21_QuoteEmailSentFor(q)
             /\ C21_Status(q) = "email_sent"
             /\ Truthy(Get(redisGet(redis.followup[q])).recipientEmail)
             /\ IsSome(redisGet(redis.rfqData[q]))
      /\ \A q \in QuoteIds :
           C21_SweepStep /\ C21_Status(q) = "pending" =>
             /\ mails'[q] = mails[q]
             /\ redis'.followup[q] = redis.followup[q]
      /\ ( /\ probe' # probe
           /\ Get(probe').tool = "sendRfqEmail"
           /\ ~IsSome(redisGet(redis.rfqData[Get(probe').quoteNumber])) )
           => /\ ~Get(probe').mailed
              /\ Get(probe').outcome.failure
              /\ redis' = redis
              /\ mails' = mails
    ]_vars

\* A reminder went out for a quote whose quote email was sent before.
C21_Witness ==
  \E q \in QuoteIds :
    /\ mails[q] # <<0, 0, 0>>
    /\ C21_QuoteEmailSentFor(q)

(***************************************************************************)
(* Pending-upload recovery in handleStreamPrompt.  A text is a sequence of *)
(* pieces: the words "Upload key:" and "[PRODUCT_UPLOAD]" (each one piece, *)
(* in any letter case), single whitespace characters, and other words.     *)
(***************************************************************************)
MaxHistory == 2

UploadKeyWords == { "Upload key:", "upload KEY:" }
ProductUploadTag == "[PRODUCT_UPLOAD]"

\* The end of the run of whitespace (ws = TRUE) or of other pieces that
\* starts at i: the first index after it.
RECURSIVE runEnd(_, _, _)
runEnd(content, i, ws) ==
  IF i > Len(content) \/ IsWhitespace(content[i]) # ws THEN i
  ELSE runEnd(content, i + 1, ws)

\* content.match(/Upload key:\s*(\S+)/i), tried from piece i on: the
\* captured token, or None.  (No text of the model puts a word right
\* after "Upload key:" that the pattern would split.)
RECURSIVE matchUploadKey(_, _)
matchUploadKey(content, i) ==
  IF i > Len(content) THEN None
  ELSE LET from == runEnd(content, i + 1, TRUE)
           to == runEnd(content, from, FALSE)
       IN  IF content[i] \in UploadKeyWords /\ to > from
           THEN Some(SubSeq(content, from, to - 1))
           ELSE matchUploadKey(content, i + 1)

\* A plausible slip: the role of the message is not looked at.
RECURSIVE extractPendingUploadKeyAnyRole(_, _)
extractPendingUploadKeyAnyRole(history, i) ==
  IF i < 1 THEN None
  ELSE IF IsSome(matchUploadKey(history[i].content, 1))
  THEN matchUploadKey(history[i].content, 1)
  ELSE extractPendingUploadKeyAnyRole(history, i - 1)

\* ChatService.extractPendingUploadKey, its loop entered at index i.
RECURSIVE extractPendingUploadKey(_, _)
extractPendingUploadKey(history, i) ==
  IF i < 1 THEN None
  ELSE IF history[i].role = "user" /\ IsSome(matchUploadKey(history[i].content, 1))
  THEN matchUploadKey(history[i].content, 1)
  ELSE extractPendingUploadKey(history, i - 1)

startsWith(text, word) == text # << >> /\ text[1] = word

\* The key injection of handleStreamPrompt: the prompt sent to the model.
\* history = None is a request without a history.
injectPendingKey(finalPrompt, history) ==
  LET pendingKey == IF IsSome(history)
                    THEN extractPendingUploadKey(Get(history), Len(Get(history)))
                    ELSE None
  IN  IF ~startsWith(finalPrompt, ProductUploadTag) /\ IsSome(pendingKey)
      THEN << "[UPLOAD_KEY: " >> \o Get(pendingKey) \o << "]", "\n" >> \o finalPrompt
      ELSE finalPrompt

TextMessage(role, content) == [ role |-> role, content |-> content ]

MessageTexts ==
  { << "hi" >>,
    << "Upload key:", " ", "k1", " ", "x" >>,
    << "upload KEY:", "k", "2" >>,
    << "Upload key:", " ", "\n" >>,
    << "x", "Upload key:", "\n", "k3", " ", "Upload key:", " ", "k4" >> }
TextMessages ==
  { TextMessage(role, content) : role \in { "user", "assistant" },
                                 content \in MessageTexts }

RECURSIVE HistoriesUpTo(_)
HistoriesUpTo(n) ==
  IF n = 0 THEN { << >> }
  ELSE HistoriesUpTo(n - 1)
         \cup { Append(h, m) : h \in { g \in HistoriesUpTo(n - 1) : Len(g) = n - 1 },
                               m \in TextMessages }

Prompts ==
  { << "hi" >>, << >>, << ProductUploadTag, "\n", "File:" >>,
    << " ", ProductUploadTag >> }

\* One turn observed: the prompt, the history and the prompt that was sent.
InjectPendingKeyCall(prompt, history) ==
  /\ probe = None
  /\ probe' = Some([ fn |-> "injectPendingKey", prompt |-> prompt,
                     history |-> history,
                     sent |-> injectPendingKey(prompt, history) ])
  /\ UNCHANGED << now, cfg, redis, nextKey, uploadEvt, calls, lastReturn,
                  successes, store, lastReq, attempts, rfqVars, stream,
                  slackVars, sheet1, wa, staging >>

NextPendingKey ==
  \E prompt \in Prompts,
     history \in { None } \cup { Some(h) : h \in HistoriesUpTo(MaxHistory) } :
    InjectPendingKeyCall(prompt, history)

SpecPendingKey == InitHistory /\ [][NextPendingKey]_vars

(***************************************************************************)
(* C22.  Pending-upload recovery: if the prompt does not start with        *)
(* [PRODUCT_UPLOAD] and the history has a user message with an             *)
(* "Upload key: <token>" marker, the prompt sent to the model is           *)
(* "[UPLOAD_KEY: <token>]", a newline and the prompt, with the token of    *)
(* the most recent such user message; otherwise the prompt is sent as it   *)
(* is.                                                                     *)
(***************************************************************************)
\* The places of a text where a marker stands: the words, whitespace or
\* none, and a token.
C22_MarkerAt(content, i, j) ==
  /\ i < j /\ j <= Len(content)
  /\ content[i] \in { "Upload key:", "upload KEY:" }
  /\ \A k \in (i + 1)..(j - 1) : content[k] \in { " ", "\n" }
  /\ content[j] \notin { " ", "\n" }

C22_HasMarker(content) ==
  \E i, j \in 1..Len(content) : C22_MarkerAt(content, i, j)

\* The token of the first marker of a text: the pieces up to the next
\* whitespace or the end.
C22_Token(content) ==
  LET i == CHOOSE i \in 1..Len(content) :
             /\ \E j \in 1..Len(content) : C22_MarkerAt(content, i, j)
             /\ \A g \in 1..(i - 1) :
                  ~\E j \in 1..Len(content) : C22_MarkerAt(content, g, j)
      j == CHOOSE j \in 1..Len(content) : C22_MarkerAt(content, i, j)
      e == CHOOSE e \in j..Len(content) :
             /\ \A k \in j..e : content[k] \notin { " ", "\n" }
             /\ e = Len(content) \/ content[e + 1] \in { " ", "\n" }
  IN  SubSeq(content, j, e)

C22_IsCall == IsSome(probe) /\ Get(probe).fn = "injectPendingKey"

C22_MarkedUserMessages ==
  LET history == OrElse(Get(probe).history, << >>) IN
  { i \in 1..Len(history) :
      history[i].role = "user" /\ C22_HasMarker(history[i].content) }

C22_PendingUploadRecovery ==
  C22_IsCall =>
    LET call == Get(probe)
        history == OrElse(call.history, << >>)
        marked == C22_MarkedUserMessages
        last == CHOOSE i \in marked : \A k \in marked : k <= i
    IN  IF (call.prompt = << >> \/ call.prompt[1] # "[PRODUCT_UPLOAD]") /\ marked # {}
        THEN call.sent = << "[UPLOAD_KEY: " >> \o C22_Token(history[last].content)
                           \o << "]", "\n" >> \o call.prompt
        ELSE call.sent = call.prompt

\* The key comes from an earlier user message: the last message is an
\* assistant message that has a marker of its own.
C22_Witness ==
  /\ C22_IsCall
  /\ Get(probe).sent # Get(probe).prompt
  /\ LET history == Get(Get(probe).history) IN
     /\ Len(history) = 2
     /\ history[2].role = "assistant" /\ C22_HasMarker(history[2].content)
     /\ history[1].content = << "x", "Upload key:", "\n", "k3", " ", "Upload key:", " ", "k4" >>

(***************************************************************************)
(* The attachment prelude of handleStreamPrompt.  An attachment is its     *)
(* name, its MIME type and what parseProductFile makes of its data: a      *)
(* table, or None for data without a non-empty row ('Empty file').  The    *)
(* awaits of getOrCreateUploadKey on the store can reject.                 *)
(***************************************************************************)
PRODUCT_FILE_EXTS == { << "c", "s", "v" >>, << "j", "s", "o", "n" >>,
                       << "x", "l", "s", "x" >>, << "x", "l", "s" >> }
PRODUCT_FILE_MIMES ==
  { "text/csv", "application/json",
    "application/vnd.openxmlformats-officedocument.spreadsheetml.sheet",
    "application/vnd.ms-excel" }

\* ChatService.isProductFile.
isProductFile(mimeType, name) ==
  \/ mimeType \in PRODUCT_FILE_MIMES
  \/ LET pieces == split(name, ".") IN
     toLowerCase(pieces[Len(pieces)]) \in PRODUCT_FILE_EXTS

Attachment(name, mimeType, data) ==
  [ name |-> name, mimeType |-> mimeType, data |-> data ]

\* attachments.findIndex(isProductFile), counted from 1; 0 for -1.
productIndex(attachments) ==
  LET hits == { i \in 1..Len(attachments) :
                  isProductFile(attachments[i].mimeType, attachments[i].name) }
  IN  IF hits = {} THEN 0 ELSE CHOOSE i \in hits : \A j \in hits : i <= j

\* attachments.filter((_, i) => i !== productIdx)
withoutIndex(attachments, productIdx) ==
  SubSeq(attachments, 1, productIdx - 1)
    \o SubSeq(attachments, productIdx + 1, Len(attachments))

\* Which await of getOrCreateUploadKey rejects, if any: the first
\* redis.get, the redis.set of product-upload:<key>, or the redis.set of
\* product-upload-hash:<hash>.
StagingFailures == { "none", "get", "setUpload", "setHash" }

\* getOrCreateUploadKey under such a failure: whether it threw, and the
\* store and the key counter it leaves.
GetOrCreateUploadKeyFailing(r, rows, nk, kvFail) ==
  LET hash == hashRows(rows)
      existingKey == redisGet(r.hash[hash])
      reuse == IsSome(existingKey) /\ IsSome(redisGet(r.upload[Get(existingKey)]))
      res == GetOrCreateUploadKey(r, rows, nk)
      uploadKey == nk + 1
      r1 == [r EXCEPT !.upload[uploadKey] = Entry(TableId(rows), PRODUCT_UPLOAD_TTL)]
  IN  CASE kvFail = "get" ->
             [ threw |-> TRUE, res |-> res, redis |-> r, nextKey |-> nk ]
        [] kvFail = "setUpload" /\ ~reuse ->
             [ threw |-> TRUE, res |-> res, redis |-> r, nextKey |-> uploadKey ]
        [] kvFail = "setHash" /\ ~reuse ->
             [ threw |-> TRUE, res |-> res, redis |-> r1, nextKey |-> uploadKey ]
        [] OTHER ->
             [ threw |-> FALSE, res |-> res, redis |-> res.redis,
               nextKey |-> res.nextKey ]

\* The prompt of a turn with a staged product file: the [PRODUCT_UPLOAD]
\* block and the user's prompt, or the stock sentence for an empty one.
uploadPrompt(prompt, uploadKey) ==
  << ProductUploadTag, "\n", "Upload key:", " ", ToString(uploadKey), "\n", "\n" >>
    \o (IF prompt = << >> THEN << "I have uploaded a product file." >> ELSE prompt)

\* ChatService.handleStreamPrompt from its entry to the call of
\* streamResponseWithHistory: the prelude in its try/catch, the key
\* injection and the user message handed to the model.
HandleStreamPromptAttachments(prompt, history, attachments, kvFail) ==
  LET productIdx == productIndex(attachments)
      att == attachments[productIdx]
      parsed == IF productIdx # 0 THEN att.data ELSE None
      staged == GetOrCreateUploadKeyFailing(redis, Get(parsed), nextKey, kvFail)
      ok == IsSome(parsed) /\ ~staged.threw
      prelude == IF ok THEN << UploadEvent(Get(parsed), staged.res),
                               UserContentEvent(Get(parsed), staged.res) >>
                 ELSE << >>
      finalPrompt == IF ok THEN uploadPrompt(prompt, staged.res.uploadKey) ELSE prompt
      finalAttachments == IF ok THEN withoutIndex(attachments, productIdx)
                          ELSE attachments
  IN  /\ probe = None
      /\ stream.pc # "streaming"
      /\ IsSome(parsed) => CanStage(Get(parsed))
      /\ redis' = IF IsSome(parsed) THEN staged.redis ELSE redis
      /\ nextKey' = IF IsSome(parsed) THEN staged.nextKey ELSE nextKey
      /\ uploadEvt' = IF ok
                      THEN [uploadEvt EXCEPT ![hashRows(Get(parsed))] = Some(prelude[1])]
                      ELSE uploadEvt
      /\ stream' = Streaming(prelude)
      /\ probe' = Some([ fn |-> "handleStreamPrompt", prompt |-> prompt,
                         attachments |-> attachments, productIdx |-> productIdx,
                         failed |-> productIdx # 0 /\ ~ok,
                         before |-> redis, after |-> redis',
                         content |-> injectPendingKey(finalPrompt, history),
                         sentAttachments |-> finalAttachments ])
      /\ UNCHANGED << now, cfg, calls, lastReturn, successes, store, lastReq,
                      attempts, rfqVars, slackVars, sheet1, wa, staging >>

CsvName == << "a", ".", "C", "S", "V" >>
PngName == << "b", ".", "p", "n", "g" >>

\* A product file, one named as a product file but typed as a byte
\* stream, an empty product file, and a picture.
AttachmentsSent ==
  { Attachment(CsvName, "text/csv", Some(TableA)),
    Attachment(CsvName, "application/octet-stream", Some(TableB)),
    Attachment(CsvName, "text/csv", None),
    Attachment(PngName, "image/png", None) }

AttachmentLists ==
  { << >> } \cup { << a >> : a \in AttachmentsSent }
            \cup { << a, b >> : a \in AttachmentsSent, b \in AttachmentsSent }

AttachmentHistories ==
  { None, Some(<< TextMessage("user", << "Upload key:", " ", "k1", " ", "x" >>) >>) }

NextAttachment ==
  \/ \E prompt \in { << >>, << "hi" >> }, history \in AttachmentHistories,
        attachments \in AttachmentLists, kvFail \in StagingFailures :
       HandleStreamPromptAttachments(prompt, history, attachments, kvFail)
  \/ HandleProductUpload(TableA)
  \/ StreamEnd

SpecAttachment == InitStream /\ [][NextAttachment]_vars

(***************************************************************************)
(* C23.  Attachment parse failure degrades without the attachment: when    *)
(* parsing the product-file attachment of a streaming turn, or staging its *)
(* rows, has failed, no `upload` event was emitted, no upload session was  *)
(* created, the model is invoked with the user's original prompt, and the  *)
(* failed product attachment is not among the attachments sent to the      *)
(* model.                                                                  *)
(***************************************************************************)
C23_IsTurn == IsSome(probe) /\ Get(probe).fn = "handleStreamPrompt"

C23_DegradesWithoutAttachment ==
  (C23_IsTurn /\ Get(probe).failed) =>
    LET turn == Get(probe) IN
    /\ \A i \in 1..Len(stream.prelude) : stream.prelude[i].t # "upload"
    /\ turn.after.upload = turn.before.upload
    /\ turn.content = turn.prompt
    /\ \A i \in 1..Len(turn.sentAttachments) :
         turn.sentAttachments[i] # turn.attachments[turn.productIdx]

\* What the code does keep on a failed parse or staging: no event is
\* emitted, the hash mapping is unchanged and no attachment is dropped.
C23_FailureEmitsNothing ==
  (C23_IsTurn /\ Get(probe).failed) =>
    /\ stream.prelude = << >>
    /\ Get(probe).after.hash = Get(probe).before.hash
    /\ Get(probe).sentAttachments = Get(probe).attachments

(***************************************************************************)
(* A WhatsApp turn step by step: ChatService.handleIncomingMessage and its *)
(* four awaits on the outside world (WhatsappService.sendReadWithTyping,   *)
(* AiService.generateResponseWithHistory, redisService.set,                *)
(* WhatsappService.sendMessage), each of which can reject and so end the   *)
(* handler.  One webhook is handled at a time.                             *)
(***************************************************************************)
WaMessage(type, from, id) == [ type |-> type, from |-> from, id |-> id ]

\* body.entry[0].changes[0].value.messages[0], or None for a payload
\* without messages (a status update).
WaPayloads ==
  { None } \cup { Some(WaMessage(type, "wa", id)) :
                    type \in { "text", "image" }, id \in { "m1", "m2" } }

Effect(op, messageID, to) == [ op |-> op, messageID |-> messageID, to |-> to ]

\* A plausible slip: a failed generation is swallowed and the turn goes on.
afterGenerateSwallowed(aiOk) == "store"

\* Where the handler is after generateResponseWithHistory settled.
afterGenerate(aiOk) == IF aiOk THEN "store" ELSE "threw"

\* The guards at the top of handleIncomingMessage.
WaReceive(payload) ==
  LET history == OrElse(redisGet(redis.history["wa"]), << >>) IN
  /\ wa.pc \in { "idle", "returned", "threw" }
  /\ NextContent(history) < MaxMessages
  /\ wa' = [ IdleTurn EXCEPT
               !.pc = IF IsSome(payload) /\ Get(payload).type = "text"
                      THEN "read" ELSE "returned",
               !.message = payload,
               !.before = history ]
  /\ UNCHANGED << now, cfg, redis, nextKey, uploadEvt, calls, lastReturn,
                  successes, store, lastReq, attempts, rfqVars, stream, probe,
                  slackVars, sheet1, staging >>

\* await this.whatsappService.sendReadWithTyping(messageID)
WaSendReadWithTyping(ok) ==
  /\ wa.pc = "read"
  /\ wa' = IF ok
           THEN [ wa EXCEPT !.pc = "generate",
                            !.effects = Append(@, Effect("read", Get(wa.message).id, "")) ]
           ELSE [ wa EXCEPT !.pc = "threw" ]
  /\ UNCHANGED << now, cfg, redis, nextKey, uploadEvt, calls, lastReturn,
                  successes, store, lastReq, attempts, rfqVars, stream, probe,
                  slackVars, sheet1, staging >>

\* The history read, the message list and
\* await this.aiService.generateResponseWithHistory(aiMessages)
WaGenerate(aiOk) ==
  LET history == OrElse(redisGet(redis.history["wa"]), << >>)
      userText == NextContent(history)
      aiMessages == slice(history, 0 - HISTORY_LIMIT)
                      \o << ChatMessage("user", userText) >>
  IN  /\ wa.pc = "generate"
      /\ wa' = [ wa EXCEPT !.pc = afterGenerate(aiOk),
                           !.userText = userText,
                           !.aiMessages = aiMessages,
                           !.effects = Append(@, Effect(IF aiOk THEN "generate"
                                                        ELSE "generateFailed", "", "")) ]
      /\ UNCHANGED << now, cfg, redis, nextKey, uploadEvt, calls, lastReturn,
                      successes, store, lastReq, attempts, rfqVars, stream, probe,
                      slackVars, sheet1, staging >>

\* await this.redisService.set(historyKey, [...aiMessages, reply], TTL)
WaStore(kvOk) ==
  /\ wa.pc = "store"
  /\ IF kvOk
     THEN /\ redis' = [ redis EXCEPT !.history[Get(wa.message).from] =
                          Entry(wa.aiMessages
                                  \o << ChatMessage("assistant", wa.userText + 1) >>,
                                HISTORY_TTL_SECONDS) ]
          /\ wa' = [ wa EXCEPT !.pc = "send",
                               !.effects = Append(@, Effect("history", "", Get(wa.message).from)) ]
     ELSE /\ wa' = [ wa EXCEPT !.pc = "threw" ]
          /\ UNCHANGED redis
  /\ UNCHANGED << now, cfg, nextKey, uploadEvt, calls, lastReturn,
                  successes, store, lastReq, attempts, rfqVars, stream, probe,
                  slackVars, sheet1, staging >>

\* await this.whatsappService.sendMessage(phoneNumber, messageID, aiResponse)
WaSendMessage(ok) ==
  /\ wa.pc = "send"
  /\ wa' = IF ok
           THEN [ wa EXCEPT !.pc = "returned",
                            !.effects = Append(@, Effect("send", Get(wa.message).id,
                                                         Get(wa.message).from)) ]
           ELSE [ wa EXCEPT !.pc = "threw" ]
  /\ UNCHANGED << now, cfg, redis, nextKey, uploadEvt, calls, lastReturn,
                  successes, store, lastReq, attempts, rfqVars, stream, probe,
                  slackVars, sheet1, staging >>

NextWhatsapp ==
  \/ \E payload \in WaPayloads : WaReceive(payload)
  \/ \E ok \in BOOLEAN : WaSendReadWithTyping(ok)
  \/ \E aiOk \in BOOLEAN : WaGenerate(aiOk)
  \/ \E kvOk \in BOOLEAN : WaStore(kvOk)
  \/ \E ok \in BOOLEAN : WaSendMessage(ok)

SpecWhatsapp == InitHistory /\ [][NextWhatsapp]_vars

(***************************************************************************)
(* C24.  WhatsApp turn ordering: the side effects of a text message occur  *)
(* in the order mark-as-read/typing, model generation, history write,      *)
(* reply send, the first and the last naming the id of the message; when   *)
(* generation fails, no history write and no reply follow and the stored   *)
(* history is what it was; a payload without a message or with a non-text  *)
(* message has no effect at all.                                           *)
(***************************************************************************)
C24_Order == << "read", "generate", "history", "send" >>

C24_Stored == OrElse(redisGet(redis.history["wa"]), << >>)

C24_IsText == IsSome(wa.message) /\ Get(wa.message).type = "text"

C24_GenerationFailed ==
  \E i \in 1..Len(wa.effects) : wa.effects[i].op = "generateFailed"

C24_TurnOrdering ==
  /\ C24_GenerationFailed =>
       /\ Len(wa.effects) = 2 /\ wa.effects[1].op = "read"
       /\ C24_Stored = wa.before
  /\ ~C24_GenerationFailed =>
       /\ Len(wa.effects) <= 4
       /\ \A i \in 1..Len(wa.effects) : wa.effects[i].op = C24_Order[i]
  /\ \A i \in 1..Len(wa.effects) :
       /\ wa.effects[i].op \in { "read", "send" } =>
            wa.effects[i].messageID = Get(wa.message).id
       /\ wa.effects[i].op = "send" => wa.effects[i].to = Get(wa.message).from
  /\ wa.pc = "returned" /\ C24_IsText => Len(wa.effects) = 4
  /\ (wa.pc # "idle" /\ ~C24_IsText) =>
       wa.effects = << >> /\ C24_Stored = wa.before

\* A second message, answered in full: read, generate, history write and
\* reply, on top of a stored history.
C24_Witness ==
  /\ wa.pc = "returned" /\ C24_IsText
  /\ Len(wa.effects) = 4
  /\ wa.before # << >>
  /\ C24_Stored # wa.before

\* A turn whose generation failed, with a history stored before it.
C24_WitnessFailed ==
  /\ C24_GenerationFailed
  /\ wa.pc = "threw"
  /\ wa.before # << >>

(***************************************************************************)
(* getOrCreateUploadKey step by step.  Each await on the store is a point  *)
(* where another request can run: the reads of the hash mapping and of the *)
(* session, the write of product-upload:<key>, and the write of            *)
(* product-upload-hash:<hash> with what follows it.                        *)
(***************************************************************************)
\* The reads: redis.get(hashKey) and, for a key found, redis.get of its
\* session and of the catalog.  A live session is reused and emitted.
StageRead(u, rows) ==
  LET hash == hashRows(rows)
      existingKey == redisGet(redis.hash[hash])
      reuse == IsSome(existingKey) /\ IsSome(redisGet(redis.upload[Get(existingKey)]))
      res == GetOrCreateUploadKey(redis, rows, nextKey)
  IN  /\ staging[u].pc = "idle"
      /\ IF reuse
         THEN /\ redis' = res.redis
              /\ uploadEvt' = [uploadEvt EXCEPT ![hash] = Some(UploadEvent(rows, res))]
              /\ UNCHANGED staging
         ELSE /\ staging' = [ staging EXCEPT ![u] = [ pc |-> "fresh", rows |-> rows,
                                                      uploadKey |-> 0 ] ]
              /\ UNCHANGED << redis, uploadEvt >>
      /\ UNCHANGED << now, cfg, nextKey, calls, lastReturn, successes, store,
                      lastReq, attempts, rfqVars, stream, probe, slackVars,
                      sheet1, wa >>

\* randomUUID() and await redis.set(`product-upload:${uploadKey}`, rows, TTL)
StageSetUpload(u) ==
  LET uploadKey == nextKey + 1 IN
  /\ staging[u].pc = "fresh"
  /\ nextKey < MaxUploads
  /\ nextKey' = uploadKey
  /\ redis' = [ redis EXCEPT !.upload[uploadKey] =
                  Entry(TableId(staging[u].rows), PRODUCT_UPLOAD_TTL) ]
  /\ staging' = [ staging EXCEPT ![u].pc = "stored", ![u].uploadKey = uploadKey ]
  /\ UNCHANGED << now, cfg, uploadEvt, calls, lastReturn, successes, store,
                  lastReq, attempts, rfqVars, stream, probe, slackVars,
                      sheet1, wa >>

\* await redis.set(hashKey, uploadKey, TTL), the catalog save, the return
\* and the `upload` event of the caller.
StageSetHash(u) ==
  LET rows == staging[u].rows
      uploadKey == staging[u].uploadKey
      r2 == [ redis EXCEPT !.hash[hashRows(rows)] = Entry(uploadKey, PRODUCT_UPLOAD_TTL) ]
  IN  /\ staging[u].pc = "stored"
      /\ redis' = saveProductCatalog(r2, rows)
      /\ uploadEvt' = [ uploadEvt EXCEPT ![hashRows(rows)] =
                          Some(UploadEvent(rows, [ uploadKey |-> uploadKey,
                                                   alreadyExists |-> FALSE ])) ]
      /\ staging' = [ staging EXCEPT ![u] = IdleStaging ]
      /\ UNCHANGED << now, cfg, nextKey, calls, lastReturn, successes, store,
                      lastReq, attempts, rfqVars, stream, probe, slackVars,
                      sheet1, wa >>

NextStageRace ==
  \/ \E u \in Stagings, rows \in UploadTables : StageRead(u, rows)
  \/ \E u \in Stagings : StageSetUpload(u)
  \/ \E u \in Stagings : StageSetHash(u)
  \/ UploadTick

SpecStageRace == InitUpload /\ [][NextStageRace]_vars

(***************************************************************************)
(* C25.  One live upload session per content: whenever no upload is between *)
(* its two writes, at most one unexpired product-upload:<key> session      *)
(* holds the rows of any given content hash, and the                       *)
(* product-upload-hash:<hash> mapping points to it.  Uploads of the same   *)
(* content can be handled concurrently.                                    *)
(***************************************************************************)
C25_Sessions(h) == { k \in UploadKeys : redisGet(redis.upload[k]) = Some(h) }

C25_OneLiveSessionPerContent ==
  (\A u \in Stagings : staging[u].pc # "stored") =>
    \A h \in Hashes :
      /\ Cardinality(C25_Sessions(h)) <= 1
      /\ \A k \in C25_Sessions(h) : redisGet(redis.hash[h]) = Some(k)

\* Uploads handled one after the other keep one session per content.
C25_OneSessionWhenSequential ==
  (\A u \in Stagings : staging[u].pc = "idle") =>
    \A h \in Hashes :
      /\ Cardinality(C25_Sessions(h)) <= 1
      /\ \A k \in C25_Sessions(h) : redisGet(redis.hash[h]) = Some(k)

(***************************************************************************)
(* Web-search indicators on the two streaming endpoints.  The parts come   *)
(* in an order the model SDK can produce: a tool-result follows a          *)
(* tool-call of the same tool that has no result yet, and finish comes     *)
(* when no call is waiting for its result.  An error part, or the stream   *)
(* rejecting, can come at any point.                                       *)
(***************************************************************************)
CountParts(consumed, type, toolName) ==
  Cardinality({ i \in 1..Len(consumed) :
                  consumed[i].type = type /\ consumed[i].toolName = toolName })

\* Calls of the tool that no result has answered yet.
Outstanding(consumed, toolName) ==
  CountParts(consumed, "tool-call", toolName) - CountParts(consumed, "tool-result", toolName)

InOrder(consumed, part) ==
  /\ part.type = "tool-result" => Outstanding(consumed, part.toolName) > 0
  /\ part.type = "finish" =>
       \A n \in { "webSearch", "processRfq" } : Outstanding(consumed, n) = 0
  /\ \A i \in 1..Len(consumed) : consumed[i].type # "finish"

\* fullStream ends by itself after finish, or after an error part.
CanEnd(consumed) ==
  \E i \in 1..Len(consumed) : consumed[i].type \in { "finish", "error" }

\* The chat endpoint reading such a stream.
SearchStreamPart(part) == InOrder(stream.consumed, part) /\ StreamPart(part)
SearchStreamEnd == CanEnd(stream.consumed) /\ StreamEnd

\* The switch of ExposeController.streamResponse: the events emitted for
\* one part.
translateExpose(part) ==
  CASE part.type = "text-delta" -> << [ t |-> "text", v |-> part.text ] >>
    [] part.type = "tool-call" -> << [ t |-> "tool_call", tool |-> part.toolName ] >>
    [] part.type = "tool-result" -> << [ t |-> "tool_result", tool |-> part.toolName ] >>
    [] part.type = "reasoning-delta" -> << [ t |-> "reasoning", v |-> part.text ] >>
    [] part.type = "finish" -> << [ t |-> "done" ] >>
    [] part.type = "error" -> << >>
    [] OTHER -> << >>

\* The pre-search of ExposeController.streamResponse: the events around
\* searchWeb, which answers null when it finds nothing or fails.
preSearch(webSearchEnabled, found) ==
  IF webSearchEnabled
  THEN << [ t |-> "searching", query |-> "hi" ], [ t |-> "search_done" ] >>
  ELSE << >>

\* POST expose/prompt/stream up to the call of streamResponse.
ExposeStart(webSearchEnabled, found) ==
  /\ stream.pc \notin { "streaming", "exposing" }
  /\ stream' = [ IdleStream EXCEPT !.pc = "exposing",
                                   !.prelude = preSearch(webSearchEnabled, found),
                                   !.out = preSearch(webSearchEnabled, found) ]
  /\ UNCHANGED << now, cfg, redis, nextKey, uploadEvt, calls, lastReturn,
                  successes, store, lastReq, attempts, rfqVars, probe, slackVars,
                  sheet1, wa, staging >>

ExposePart(part) ==
  /\ stream.pc = "exposing"
  /\ Len(stream.consumed) < MaxParts
  /\ InOrder(stream.consumed, part)
  /\ stream' = [ stream EXCEPT !.consumed = Append(@, part),
                               !.out = @ \o translateExpose(part) ]
  /\ UNCHANGED << now, cfg, redis, nextKey, uploadEvt, calls, lastReturn,
                  successes, store, lastReq, attempts, rfqVars, probe, slackVars,
                  sheet1, wa, staging >>

\* The loop ends, by exhaustion or by the catch and its error event.
ExposeEnd(err) ==
  /\ stream.pc = "exposing"
  /\ IsSome(err) \/ CanEnd(stream.consumed)
  /\ stream' = [ stream EXCEPT
                   !.pc = "exposed",
                   !.out = IF IsSome(err)
                           THEN Append(@, [ t |-> "error", msg |-> errMsg(Get(err)) ])
                           ELSE @ ]
  /\ UNCHANGED << now, cfg, redis, nextKey, uploadEvt, calls, lastReturn,
                  successes, store, lastReq, attempts, rfqVars, probe, slackVars,
                  sheet1, wa, staging >>

NextSearch ==
  \/ StreamStartPlain
  \/ \E part \in Parts : SearchStreamPart(part)
  \/ SearchStreamEnd
  \/ \E err \in StreamErrors : StreamThrow(err)
  \/ \E webSearchEnabled \in BOOLEAN, found \in BOOLEAN :
       ExposeStart(webSearchEnabled, found)
  \/ \E part \in Parts : ExposePart(part)
  \/ \E err \in { None } \cup { Some(e) : e \in StreamErrors } : ExposeEnd(err)

SpecSearch == InitStream /\ [][NextSearch]_vars

(***************************************************************************)
(* C26.  Web-search indicators are paired: in the events of a streaming    *)
(* endpoint no `search_done` comes without an earlier `searching` it       *)
(* answers, and once the stream has ended every `searching` has been       *)
(* answered by a `search_done` before the terminal event; on the expose    *)
(* stream endpoint with web search enabled the pair comes before every     *)
(* `text` event.                                                           *)
(***************************************************************************)
C26_Count(out, n, t) == Cardinality({ i \in 1..n : out[i].t = t })

\* Searches not yet answered after the first n events.
C26_Open(out, n) == C26_Count(out, n, "searching") - C26_Count(out, n, "search_done")

\* The events before the terminal event (done or error), all if none.
C26_BeforeTerminal(out) ==
  LET ends == { i \in 1..Len(out) : out[i].t \in { "done", "error" } }
  IN  IF ends = {} THEN Len(out)
      ELSE (CHOOSE i \in ends : \A j \in ends : i <= j) - 1

C26_Paired(out, ended) ==
  /\ \A n \in 0..Len(out) : C26_Open(out, n) >= 0
  /\ ended => C26_Open(out, C26_BeforeTerminal(out)) = 0

C26_PairFirst(out) ==
  \A i \in 1..Len(out) :
    out[i].t = "text" =>
      \E j \in 1..(i - 1), k \in 1..(i - 1) :
        j < k /\ out[j].t = "searching" /\ out[k].t = "search_done"

C26_SearchIndicatorsPaired ==
  /\ C26_Paired(stream.out, stream.pc \in { "returned", "exposed" })
  /\ (stream.pc \in { "exposing", "exposed" } /\ stream.prelude # << >>) =>
       C26_PairFirst(stream.out)

\* What holds of the expose endpoint alone.
C26_ExposePaired ==
  stream.pc \in { "exposing", "exposed" } =>
    /\ C26_Paired(stream.out, stream.pc = "exposed")
    /\ stream.prelude # << >> => C26_PairFirst(stream.out)

\* What holds of the chat endpoint: a stream that reaches finish has its
\* searches answered.
C26_ChatPairedAtFinish ==
  /\ \A n \in 0..Len(stream.out) : C26_Open(stream.out, n) >= 0
  /\ (\E i \in 1..Len(stream.out) : stream.out[i].t = "done") =>
       C26_Open(stream.out, C26_BeforeTerminal(stream.out)) = 0

(***************************************************************************)
(* C27.  A rejected confirmation leaves the upload session intact: an      *)
(* uploadToSheet call whose code does not match, or made while             *)
(* UPLOAD_SECRET_CODE is unset, returns success = false and leaves the     *)
(* store (session, hash mapping, catalog) as it was; a call with the       *)
(* matching code made afterwards finds the session, and a call that        *)
(* succeeds returns the rows staged under its key.                         *)
(***************************************************************************)
C27_Norm(code) == trimEnd(trimStart(toLowerCase(code)))

C27_Rejected(r) ==
  \/ ~IsSome(cfg.uploadSecret)
  \/ C27_Norm(r.secretCode) # C27_Norm(Get(cfg.uploadSecret))

\* The table staged under key k, as the `upload` events told it.
C27_StagedUnder(k) ==
  { h \in Hashes : IsSome(uploadEvt[h]) /\ Get(uploadEvt[h]).uploadKey = k }

C27_Returned == lastReturn' # lastReturn /\ IsSome(lastReturn')

C27_RejectionKeepsSession ==
  [][ C27_Returned =>
        LET r == Get(lastReturn') IN
        /\ C27_Rejected(r) =>
             /\ ~r.result.success
             /\ redis' = redis
        /\ (~C27_Rejected(r) /\ r.result.message = MsgExpired) =>
             ~IsSome(redisGet(redis.upload[r.uploadKey]))
        /\ r.result.success =>
             /\ IsSome(r.result.data)
             /\ Get(r.result.data) \in C27_StagedUnder(r.uploadKey)
    ]_vars

\* After a call with a wrong code was turned down, a call with the
\* matching code and the same key holds the staged rows.
C27_Witness ==
  /\ IsSome(lastReturn)
  /\ Get(lastReturn).result.message = MsgInvalidCode
  /\ calls[1].pc = "gotData"
  /\ calls[1].uploadKey = Get(lastReturn).uploadKey
  /\ calls[1].data = Some(TableId(TableA))

(***************************************************************************)
(* Quote emails sent again: after a quote email of the first day, and      *)
(* after reminders have gone out, sendRfqEmail is called once more, for    *)
(* another address.  The call observed is the last step of a behaviour.   *)
(***************************************************************************)
Mail2 == <<"n", "@", "y">>

NextQuoteResend ==
  \/ probe = None /\ NextQuoteMail
  \/ \E q \in QuoteIds : now < Day /\ probe = None /\ SendRfqEmailCall(q, Mail1, TRUE)
  \/ \E q \in QuoteIds, mailOk \in BOOLEAN : SendRfqEmailExecute(q, Mail2, mailOk)

SpecQuoteResend == InitFollowup /\ [][NextQuoteResend]_vars

(***************************************************************************)
(* C28.  A failed quote email changes nothing: when the mailer fails in    *)
(* sendRfqEmail the tool returns success = false and rfq:followup:<q> and  *)
(* rfq:data:<q> are as they were; on success the follow-up record has      *)
(* status email_sent and the given address as recipientEmail, its          *)
(* followUpDates and followUpSent are as before, and of the quote only     *)
(* contactEmail has changed.                                               *)
(***************************************************************************)
C28_IsCall ==
  /\ IsSome(probe)
  /\ Get(probe).fn = "execute"
  /\ Get(probe).tool = "sendRfqEmail"

C28_Quote(r) == redisGet(r.rfqData[Get(probe).quoteNumber])
C28_Followup(r) == redisGet(r.followup[Get(probe).quoteNumber])

C28_FailedEmailChangesNothing ==
  C28_IsCall =>
    LET call == Get(probe)
        q == call.quoteNumber
    IN  /\ ~call.mailOk =>
             /\ call.outcome.failure
             /\ call.after.followup[q] = call.before.followup[q]
             /\ call.after.rfqData[q] = call.before.rfqData[q]
        /\ (call.mailOk /\ IsSome(C28_Quote(call.before))) =>
             /\ ~call.outcome.failure
             /\ IsSome(C28_Quote(call.after))
             /\ \A f \in DOMAIN Get(C28_Quote(call.before)) \ { "contactEmail" } :
                  Get(C28_Quote(call.after))[f] = Get(C28_Quote(call.before))[f]
             /\ Get(C28_Quote(call.after)).contactEmail = Some(call.recipientEmail)
             /\ IsSome(C28_Followup(call.before)) <=> IsSome(C28_Followup(call.after))
             /\ IsSome(C28_Followup(call.before)) =>
                  LET was == Get(C28_Followup(call.before))
                      is == Get(C28_Followup(call.after))
                  IN  /\ is.status = "email_sent"
                      /\ is.recipientEmail = Some(call.recipientEmail)
                      /\ is.followUpDates = was.followUpDates
                      /\ is.followUpSent = was.followUpSent
                      /\ is.quoteNumber = was.quoteNumber

\* A quote email to a new address succeeded after a reminder had gone out.
C28_Witness ==
  /\ C28_IsCall
  /\ Get(probe).mailOk
  /\ IsSome(C28_Followup(Get(probe).before))
  /\ Get(C28_Followup(Get(probe).before)).followUpSent[1]
  /\ Get(C28_Followup(Get(probe).before)).recipientEmail = Some(Mail1)

\* The mailer failed for a quote whose follow-up record was still pending.
C28_WitnessFailed ==
  /\ C28_IsCall
  /\ ~Get(probe).mailOk
  /\ IsSome(C28_Followup(Get(probe).before))
  /\ Get(C28_Followup(Get(probe).before)).status = "pending"

(***************************************************************************)
(* C29.  Stored channel history is bounded: whenever a WhatsApp or Slack   *)
(* turn writes the history of its identity, what is stored has at most 22  *)
(* entries (at most 20 retained ones, the new user message and the         *)
(* assistant reply), and its last two entries are the user message of that  *)
(* turn and the reply to it; nothing else changes a stored history.        *)
(***************************************************************************)
C29_Stored(r, k) == OrElse(redisGet(r.history[k]), << >>)

C29_StoredHistoryBounded ==
  [][ \A k \in HistoryKeys :
        C29_Stored(redis', k) # C29_Stored(redis, k) =>
          LET h == C29_Stored(redis', k)
              was == C29_Stored(redis, k)
              n == Len(h)
              kept == IF Len(was) < 20 THEN Len(was) ELSE 20
              turn == Get(probe')
          IN  /\ n = kept + 2
              /\ n <= 22
              /\ \A i \in 1..kept : h[i] = was[Len(was) - kept + i]
              /\ turn.channel = k
              /\ h[n - 1] = turn.messages[Len(turn.messages)]
              /\ h[n - 1].role = "user"
              /\ h[n - 1] \notin { was[i] : i \in 1..Len(was) }
              /\ h[n].role = "assistant"
              /\ h[n] \notin { was[i] : i \in 1..Len(was) } \cup { h[n - 1] }
    ]_vars

\* Both channels hold a full history: 22 entries each.
C29_Witness ==
  \A k \in HistoryKeys : Len(C29_Stored(redis, k)) = 22

(***************************************************************************)
(* Slack deliveries that fail behind the dedup marker.  After the marker   *)
(* and the userText check a delivery reads the history, calls the model,   *)
(* writes the history and sends the reply; the model can reject or answer  *)
(* with an empty text, and slackService.sendMessage can reject.            *)
(***************************************************************************)
SlackOutcomes == { "ok", "empty", "generateFailed", "sendFailed" }

\* The rest of handleSlackEvent under such an outcome.  The delivery ends
\* "replied" when the reply went out and "failed" otherwise.
SlackGenerate(d, outcome) ==
  LET history == OrElse(redisGet(redis.history["slack"]), << >>)
      aiMessages == slice(history, 0 - HISTORY_LIMIT)
                      \o << ChatMessage("user", nextMsg + 1) >>
  IN  /\ slack[d].pc = "reply"
      /\ nextMsg < MaxMessages
      /\ probe' = ModelCall("generateResponseWithHistory", "slack", history, aiMessages)
      /\ redis' = IF outcome \in { "ok", "sendFailed" }
                  THEN [ redis EXCEPT !.history["slack"] =
                           Entry(aiMessages \o << ChatMessage("assistant", nextMsg + 2) >>,
                                 HISTORY_TTL_SECONDS) ]
                  ELSE redis
      /\ nextMsg' = nextMsg + 2
      /\ slack' = [ slack EXCEPT ![d].pc = IF outcome = "ok" THEN "replied" ELSE "failed" ]
      /\ slackDup' = IF IsSome(slack[d].eventId)
                     THEN [ slackDup EXCEPT ![Get(slack[d].eventId)] = @ \/ slack[d].dup ]
                     ELSE slackDup
      /\ UNCHANGED << now, cfg, nextKey, uploadEvt, calls, lastReturn, successes,
                      store, lastReq, attempts, rfqVars, stream, sheet1, wa, staging >>

\* Events of one id: a mention, a bot message and an event of another type.
RetryBodies ==
  { MentionBody(Some(1)),
    SlackBody("event_callback", Some(1), Some(SlackEvent("message", TRUE, Hi))),
    SlackBody("event_callback", Some(1), Some(SlackEvent("reaction_added", FALSE, Hi))) }

NextSlackRetry ==
  \/ \E d \in Deliveries, body \in RetryBodies : SlackReceive(d, None, None, body)
  \/ \E d \in Deliveries : SlackMark(d)
  \/ \E d \in Deliveries, outcome \in SlackOutcomes : SlackGenerate(d, outcome)
  \/ SlackTick

SpecSlackRetry == InitSlack /\ [][NextSlackRetry]_vars

(***************************************************************************)
(* C30.  Slack deliveries are at-most-once: the dedup marker is written    *)
(* before model generation, so once a delivery of an event has failed      *)
(* behind its marker (generation or send failed, or the reply was empty),  *)
(* no delivery of that event that went on while a marker was alive has     *)
(* replied; a delivery past the dedup check has its marker written; and    *)
(* events ignored for bot origin or type write no marker and no history.   *)
(***************************************************************************)
C30_Past(d) == slack[d].pc \in { "reply", "replied", "failed" }

C30_OnlyIgnored ==
  \A d \in Deliveries : slack[d].pc \in { "idle", "ignored" }

C30_AtMostOnce ==
  /\ \A d1 \in Deliveries, d2 \in Deliveries :
       ( /\ slack[d1].eventId = slack[d2].eventId
         /\ slack[d1].pc = "failed"
         /\ slack[d2].pc = "replied" )
         => ~slack[d2].dup
  /\ \A d \in Deliveries :
       (C30_Past(d) /\ IsSome(slack[d].eventId)) =>
         redis.slackEvent[Get(slack[d].eventId)] # Absent
  /\ C30_OnlyIgnored =>
       /\ \A e \in EventIds : redis.slackEvent[e] = Absent
       /\ redis.history["slack"] = Absent

\* What the marker does give: a delivery whose dedup check is made while
\* the marker is alive is dropped, whatever became of the delivery that
\* wrote the marker.
C30_RedeliveryDropped ==
  [][ \A d \in Deliveries :
        ( /\ slack[d].pc = "idle" /\ slack'[d].pc # "idle"
          /\ IsSome(slack'[d].eventId)
          /\ IsSome(redisGet(redis.slackEvent[Get(slack'[d].eventId)])) )
          => slack'[d].pc \in { "dropped", "ignored" } /\ redis' = redis
    ]_vars

====
